---- MODULE Spec2Model ----
(***************************************************************************)
(* kube-node-pool: remote execution with retry and the cluster bootstrap   *)
(* functions built on it.                                                  *)
(*                                                                         *)
(* The repository has several entry points that share no state.  The       *)
(* variable prog says which one a behaviour runs:                          *)
(*   "retry"    one logical operation of a retry executor                  *)
(*              (SSHClient.executeWithRetry, withRetry, execRemoteCommand) *)
(*   "kubeadm"  the kubeadm functions setupNodes, initControlPlane and     *)
(*              joinCluster, called in the order their documentation shows *)
(*   "k3s"      main() of the K3s example                                  *)
(* Text (messages, commands, output) is a sequence of atoms; a template    *)
(* string is the concatenation of its parts.                               *)
(***************************************************************************)
EXTENDS Integers, Sequences, FiniteSets, TLC

\* ------------------------------------------------------------- bounds
\* Largest retry count a caller passes to a retry executor.
MaxAttempts == 3
\* Hosts that join the cluster the primary host initialises.
NumJoiners == 2
\* Pieces a command text given to the join rewrite is made of.
MaxFragments == 3
\* Node rows the cluster may list at verification.
MaxNodes == 4
\* The clock runs from 0 to MaxClock milliseconds.
MaxClock == 2
\* Script deployments in flight at one time.
MaxDeploys == 2
\* Output chunks a command delivers at most.
MaxChunks == 2

\* ------------------------------------------------------------- text
Digit == <<"0", "1", "2", "3", "4", "5", "6", "7", "8", "9">>

RECURSIVE NatStr(_)
NatStr(n) == IF n < 10 THEN <<Digit[n + 1]>>
             ELSE NatStr(n \div 10) \o <<Digit[(n % 10) + 1]>>

\* `${n}` of a number in a template string.
NumStr(n) == IF n < 0 THEN <<"-">> \o NatStr(0 - n) ELSE NatStr(n)

\* t occurs in s as a contiguous run of atoms.
Contains(s, t) ==
    \E i \in 0..(Len(s) - Len(t)) : SubSeq(s, i + 1, i + Len(t)) = t

\* ------------------------------------------------------------- hosts and commands
\* config.host in a message.
HostAddr(h) == <<"host-">> \o NumStr(h)

CmdGeneric    == <<"cmd">>
SetupPath     == <<"/tmp/setup-k8s.sh">>
ConfigPath    == <<"/tmp/kubeadm-config.yaml">>
CmdSetup      == <<"sudo", " ", "bash", " ">> \o SetupPath
CmdInit       == <<"sudo", " ", "kubeadm", " ", "init", " ", "--config=">> \o ConfigPath
CmdKubeconfig == <<"sudo", " ", "cat", " ", "/etc/kubernetes/admin.conf">>
CmdToken      == <<"sudo", " ", "kubeadm", " ", "token", " ", "create", " ",
                   "--print-join-command">>
CmdK3sInit    == <<"bash", " ", "/tmp/k3s_init.sh", " ", "'token'">>
CmdK3sJoin    == <<"bash", " ", "/tmp/k3s_join_master.sh", " ", "'token'", " ",
                   "'master-ip'">>
CmdGetNodes   == <<"sudo", " ", "k3s", " ", "kubectl", " ", "get", " ", "nodes", " ", "-o",
                   " ", "wide">>
CmdCert       == <<"sudo", " ", "kubeadm", " ", "init", " ", "phase", " ", "upload-certs",
                   " ", "--upload-certs", " ", "2>/dev/null", " ", "|", " ", "tail", " ",
                   "-n", " ", "1">>

\* ------------------------------------------------------------- one attempt
\* What the transport and the remote side do to one attempt.  close0a/close0b:
\* the command ran and exited 0 (two different outputs); close1: it exited 1;
\* connError: the connection failed before the command started; timeout: the
\* per-operation timer fired first (only SSHClient arms one); uploadError: the
\* SFTP upload that precedes the command failed (uploadAndExecScript).
CommonEvents == {"close0a", "close0b", "close1", "connError"}

\* Further causes of a failed attempt.  execError: the connection was ready but
\* conn.exec reported an error; streamError: the connection reported an error
\* while the command was running; authRejected, connectTimeout: the connection
\* reported that error before it was ready; noCredential: the configuration
\* holds no key, key path or password; sftpError: the SFTP session could not be
\* opened.
CauseEvents == {"execError", "streamError", "authRejected", "connectTimeout",
                "noCredential"}

\* err.message of the error the connection reports.
ConnErrorText(ev) ==
    CASE ev = "streamError"    -> <<"ereset">>
      [] ev = "authRejected"   -> <<"eauth">>
      [] ev = "connectTimeout" -> <<"etimedout">>
      [] OTHER                 -> <<"econn">>

\* The attempt's command was started on the remote host.
CommandStarted(ev) == ev \in {"close0a", "close0b", "close1", "timeout", "streamError"}

\* What the remote command printed by the time the attempt ended.
Stdout(command, ev) ==
    CASE ev \in {"close1", "timeout", "streamError"} -> <<"out-partial">>
      [] ev \notin {"close0a", "close0b"} -> <<>>
      [] command = CmdKubeconfig -> <<"kubeconfig-yaml">>
      [] command = CmdToken ->
           <<"kubeadm", " ", "join", " ", "10.0.0.1:6443", " ", "--token", " ", "abc">>
           \o (IF ev = "close0a" THEN <<>> ELSE <<"\n">>)
      [] command = CmdCert -> IF ev = "close0a" THEN <<"certkey", "\n">> ELSE <<"\n">>
      [] OTHER -> IF ev = "close0a" THEN <<"out-a">> ELSE <<"out-b">>

Stderr(ev) == IF ev = "close1" THEN <<"err-text">> ELSE <<>>

\* A close handler that reports success whatever the exit code.
CloseResultAlwaysOk(code, stdout, stderr) ==
    [success |-> TRUE, message |-> <<"exec-ok">>,
     stdout |-> stdout, stderr |-> stderr, exitCode |-> code]

\* What the stream's close handler resolves with.
CloseResult(code, stdout, stderr) ==
    [success |-> code = 0,
     message |-> IF code = 0 THEN <<"exec-ok">>
                 ELSE <<"exec-failed-exit-code:">> \o NumStr(code),
     stdout |-> stdout, stderr |-> stderr, exitCode |-> code]

\* A timer handler that reports the timeout as an exit with code -1.
TimeoutResultUntagged(stdout) ==
    [success |-> FALSE, message |-> <<"exec-failed-exit-code:">> \o NumStr(-1),
     stdout |-> stdout, stderr |-> <<>>, exitCode |-> -1]

\* What the timeout timer's handler resolves with.
TimeoutResult(stdout) ==
    [success |-> FALSE, message |-> <<"command-timeout">>,
     stdout |-> stdout, stderr |-> <<"Command timeout">>, exitCode |-> -1]

\* The exit code the stream's close event carries.
ExitCode(ev) == IF ev = "close1" THEN 1 ELSE 0

\* SSHClient.executeCommand: every outcome is resolved as an ExecutionResult.
ExecuteCommand(command, ev) ==
    CASE ev \in {"close0a", "close0b", "close1"} ->
           CloseResult(ExitCode(ev), Stdout(command, ev), Stderr(ev))
      [] ev = "timeout" ->
           TimeoutResult(Stdout(command, ev))
      [] ev = "execError" ->
           [success |-> FALSE, message |-> <<"exec-failed:", "eexec">>,
            stdout |-> <<>>, stderr |-> <<>>, exitCode |-> -1]
      [] ev = "noCredential" ->
           [success |-> FALSE, message |-> <<"no-ssh-credential">>,
            stdout |-> <<>>, stderr |-> <<>>, exitCode |-> -1]
      [] OTHER ->
           [success |-> FALSE, message |-> <<"ssh-connect-failed:">> \o ConnErrorText(ev),
            stdout |-> <<>>, stderr |-> <<>>, exitCode |-> -1]

\* SSHClient.executeScriptViaSFTP: upload the script, then run it; every outcome
\* is resolved as an ExecutionResult.
ExecuteScriptViaSFTP(command, ev) ==
    CASE ev = "uploadError" ->
           [success |-> FALSE, message |-> <<"script-upload-failed:", "eupload">>,
            stdout |-> <<>>, stderr |-> <<>>, exitCode |-> -1]
      [] ev = "sftpError" ->
           [success |-> FALSE, message |-> <<"sftp-session-failed:", "esftp">>,
            stdout |-> <<>>, stderr |-> <<>>, exitCode |-> -1]
      [] OTHER -> ExecuteCommand(command, ev)

\* execSSHInternal: resolves stdout on exit code 0, rejects otherwise.
ExecSSHInternal(command, ev) ==
    CASE ev \in {"close0a", "close0b"} ->
           [threw |-> FALSE, value |-> Stdout(command, ev), message |-> <<>>]
      [] ev = "close1" ->
           [threw |-> TRUE, value |-> <<>>,
            message |-> <<"command-failed-exit-code">> \o NumStr(1) \o <<":">> \o Stderr(ev)]
      [] ev = "execError" ->
           [threw |-> TRUE, value |-> <<>>, message |-> <<"exec-command-failed:", "eexec">>]
      [] ev = "noCredential" ->
           \* createConnectionConfig sets no credential; the server rejects
           [threw |-> TRUE, value |-> <<>>, message |-> <<"eauth">>]
      [] OTHER ->
           [threw |-> TRUE, value |-> <<>>, message |-> ConnErrorText(ev)]

\* uploadContent: resolves, or rejects with the SFTP or connection error.
UploadContent(ev) ==
    CASE ev = "uploadError" ->
           [threw |-> TRUE, value |-> <<>>, message |-> <<"eupload">>]
      [] ev = "sftpError" ->
           [threw |-> TRUE, value |-> <<>>, message |-> <<"sftp-session-failed:", "esftp">>]
      [] ev \in {"authRejected", "connectTimeout"} ->
           [threw |-> TRUE, value |-> <<>>, message |-> ConnErrorText(ev)]
      [] ev = "noCredential" ->
           [threw |-> TRUE, value |-> <<>>, message |-> <<"eauth">>]
      [] OTHER ->
           [threw |-> FALSE, value |-> <<>>, message |-> <<>>]

\* Upload, then run whatever became of the upload.
UploadThenExecUnchecked(command, ev) == ExecSSHInternal(command, ev)

\* The operation uploadAndExecScript retries: upload, then run without retry.
UploadThenExec(command, ev) ==
    IF UploadContent(ev).threw THEN UploadContent(ev) ELSE ExecSSHInternal(command, ev)

\* execCommandOnce of execRemoteCommand: resolves {success, message, stdout?, stderr?}.
ExecCommandOnce(command, ev) ==
    CASE ev \in {"close0a", "close0b"} ->
           [success |-> TRUE, message |-> <<"command-ok">>,
            stdout |-> Stdout(command, ev), stderr |-> Stderr(ev)]
      [] ev = "close1" ->
           [success |-> FALSE, message |-> <<"command-failed-exit-code:">> \o NumStr(1),
            stdout |-> Stdout(command, ev), stderr |-> Stderr(ev)]
      [] ev = "execError" ->
           [success |-> FALSE, message |-> <<"exec-command-failed:", "eexec">>]
      [] ev = "noCredential" ->
           [success |-> FALSE, message |-> <<"no-ssh-credential">>]
      [] OTHER ->
           [success |-> FALSE, message |-> <<"ssh-connect-failed:">> \o ConnErrorText(ev)]

\* ------------------------------------------------------------- retry executors
\* executeWithRetry: SSHClient.exec; script: SSHClient.script (executeWithRetry
\* on a script); withRetry: execSSH; uploadAndExecScript: withRetry around
\* upload+run; execRemoteCommand: its own loop.
Variants == {"executeWithRetry", "script", "withRetry", "uploadAndExecScript",
             "execRemoteCommand"}

ThrowingVariants == {"withRetry", "uploadAndExecScript"}

AttemptEvents(variant) ==
    CASE variant = "executeWithRetry"    -> CommonEvents \cup {"timeout"}
      [] variant = "script"              -> CommonEvents \cup {"timeout", "uploadError"}
      [] variant = "uploadAndExecScript" -> CommonEvents \cup {"uploadError"}
      [] OTHER                           -> CommonEvents

\* Every way an attempt of the executor can end.
RetryEvents(variant) ==
    AttemptEvents(variant) \cup CauseEvents
    \cup (IF variant \in {"script", "uploadAndExecScript"} THEN {"sftpError"} ELSE {})

\* The attempt's command connection became ready.
ConnReady(ev) ==
    ev \in {"close0a", "close0b", "close1", "timeout", "execError", "streamError"}

\* conn.end() was called on the command connection before the attempt settled.
EndCalled(ev) == ev \in {"close0a", "close0b", "close1", "timeout", "execError"}

\* What an attempt did besides producing its result: connections it opened,
\* conn.end() calls it made, whether it uploaded the script file and whether
\* it issued the delete of the remote path.
Effects(variant, ev) ==
    CASE variant = "script" ->
           [opened   |-> IF ConnReady(ev) \/ ev \in {"sftpError", "uploadError"}
                         THEN 1 ELSE 0,
            ended    |-> IF EndCalled(ev) \/ ev \in {"sftpError", "uploadError"}
                         THEN 1 ELSE 0,
            uploaded |-> ConnReady(ev),
            cleanup  |-> ev \in {"close0a", "close0b", "close1", "timeout"}]
      [] variant = "uploadAndExecScript" ->
           LET up == ~UploadContent(ev).threw
               upConn == IF up \/ ev \in {"sftpError", "uploadError"} THEN 1 ELSE 0
           IN  [opened   |-> upConn + (IF up /\ ConnReady(ev) THEN 1 ELSE 0),
                ended    |-> upConn + (IF up /\ EndCalled(ev) THEN 1 ELSE 0),
                uploaded |-> up,
                cleanup  |-> FALSE]
      [] OTHER ->
           [opened   |-> IF ConnReady(ev) THEN 1 ELSE 0,
            ended    |-> IF EndCalled(ev) THEN 1 ELSE 0,
            uploaded |-> FALSE,
            cleanup  |-> FALSE]

\* An operation that sends its command through a retrying executor of its own.
InnerAttemptsNested(variant) ==
    IF variant = "uploadAndExecScript" THEN 3 ELSE 1

\* The attempts the operation of one iteration makes by itself at its command:
\* every executor retries an operation that sends the command once
\* (uploadAndExecScript calls execSSHInternal, not execSSH).
InnerAttempts(variant) == 1

\* The result of one attempt, in the shape the executor's operation produces.
AttemptResult(variant, command, ev) ==
    CASE variant = "executeWithRetry"    -> ExecuteCommand(command, ev)
      [] variant = "script"              -> ExecuteScriptViaSFTP(command, ev)
      [] variant = "withRetry"           -> ExecSSHInternal(command, ev)
      [] variant = "uploadAndExecScript" -> UploadThenExec(command, ev)
      [] OTHER                           -> ExecCommandOnce(command, ev)

\* Did the attempt succeed: no exception, or success = true in the result.
AttemptOk(variant, res) ==
    IF variant \in ThrowingVariants THEN ~res.threw ELSE res.success

\* How often one attempt started its command on the remote host: not at all
\* when the command was never started, once when it succeeded, and as often as
\* the operation itself tries when it failed.
Runs(variant, command, ev) ==
    IF ~CommandStarted(ev) THEN 0
    ELSE IF AttemptOk(variant, AttemptResult(variant, command, ev)) THEN 1
    ELSE InnerAttempts(variant)

\* The operationName execSSH and uploadAndExecScript pass to withRetry.
OperationName(variant, host) ==
    IF variant = "uploadAndExecScript"
    THEN <<"upload-and-exec-script-on">> \o HostAddr(host)
    ELSE <<"ssh-exec-on">> \o HostAddr(host)

\* A loop that stops one iteration short.
LoopContinuesShort(attempt, retries) == attempt < retries

\* for (let attempt = 1; attempt <= retries; attempt++)
LoopContinues(attempt, retries) == attempt <= retries

\* The loop body with the `return` on success missing: the result is kept but
\* the loop goes on while attempts remain.
AfterAttemptNoReturn(s, res) ==
    LET ran == [s EXCEPT !.hist = Append(@, res)]
    IN  IF AttemptOk(s.variant, res)
        THEN IF s.attempt < s.retries
             THEN [ran EXCEPT !.pc = "delay", !.result = res]
             ELSE [ran EXCEPT !.pc = "done", !.result = res]
        ELSE LET failed == [ran EXCEPT !.lastError = res.message, !.hasError = TRUE]
             IN  IF s.attempt < s.retries
                 THEN [failed EXCEPT !.pc = "delay"]
                 ELSE [failed EXCEPT !.attempt = @ + 1]

\* The loop body waiting the delay after every failed attempt, the last one
\* included.
AfterAttemptAlwaysDelay(s, res) ==
    LET ran == [s EXCEPT !.hist = Append(@, res)]
    IN  IF AttemptOk(s.variant, res)
        THEN [ran EXCEPT !.pc = "done", !.result = res]
        ELSE [ran EXCEPT !.lastError = res.message, !.hasError = TRUE, !.pc = "delay"]

\* The loop body giving up at once when the failure is a rejected
\* authentication: the remaining attempts are not made.
AfterAttemptFastFail(s, res) ==
    LET ran == [s EXCEPT !.hist = Append(@, res)]
    IN  IF AttemptOk(s.variant, res)
        THEN [ran EXCEPT !.pc = "done", !.result = res]
        ELSE LET failed == [ran EXCEPT !.lastError = res.message, !.hasError = TRUE]
             IN  IF s.attempt < s.retries /\ ~Contains(res.message, <<"eauth">>)
                 THEN [failed EXCEPT !.pc = "delay"]
                 ELSE [failed EXCEPT !.attempt = s.retries + 1]

\* The loop body, given the result res of this iteration's attempt: return it
\* on success; otherwise keep its message as lastError and, if attempts remain,
\* wait the inter-attempt delay.  hist records the attempts made.
AfterAttempt(s, res) ==
    LET ran == [s EXCEPT !.hist = Append(@, res)]
    IN  IF AttemptOk(s.variant, res)
        THEN [ran EXCEPT !.pc = "done", !.result = res]
        ELSE LET failed == [ran EXCEPT !.lastError = res.message, !.hasError = TRUE]
             IN  IF s.attempt < s.retries
                 THEN [failed EXCEPT !.pc = "delay"]
                 ELSE [failed EXCEPT !.attempt = @ + 1]

\* The delay has elapsed: attempt++ and back to the loop condition.
AfterDelay(s) == [s EXCEPT !.pc = "loop", !.attempt = @ + 1, !.sleeps = @ + 1]

\* The value an executor gives its caller once the loop ran out.
\* lastError is <<>> (the empty string) or, for withRetry, "undefined" when no
\* attempt ever failed.
ExecuteWithRetryExhausted(retries, lastError) ==
    [success |-> FALSE,
     message |-> <<"exec-failed-retried">> \o NumStr(retries) \o <<"times:">> \o lastError,
     stdout |-> <<>>, stderr |-> <<>>, exitCode |-> -1]

WithRetryExhausted(operationName, maxRetries, lastError, hasError) ==
    IF hasError
    THEN [threw |-> TRUE, value |-> <<>>,
          message |-> operationName \o <<"failed-retried">> \o NumStr(maxRetries)
                      \o <<"times:">> \o lastError]
    ELSE \* lastError is undefined: reading lastError.message is a TypeError
         [threw |-> TRUE, value |-> <<>>,
          message |-> <<"TypeError:cannot-read-properties-of-undefined">>]

ExecRemoteCommandExhausted(retries, lastError) ==
    [success |-> FALSE,
     message |-> <<"command-failed-retried">> \o NumStr(retries) \o <<"times:">> \o lastError]

Exhausted(s) ==
    CASE s.variant \in {"executeWithRetry", "script"} ->
           ExecuteWithRetryExhausted(s.retries, s.lastError)
      [] s.variant \in ThrowingVariants ->
           WithRetryExhausted(OperationName(s.variant, s.host), s.retries, s.lastError,
                              s.hasError)
      [] OTHER -> ExecRemoteCommandExhausted(s.retries, s.lastError)

\* The statement after the loop.
AfterLoop(s) == [s EXCEPT !.pc = "done", !.result = Exhausted(s)]

\* The locals of an executor as it enters its loop, for a command on a host.
EnterLoop(variant, retries, host, command) ==
    [variant |-> variant, retries |-> retries, host |-> host, command |-> command,
     attempt |-> 1, lastError |-> <<>>, hasError |-> FALSE, pc |-> "loop",
     result |-> [success |-> FALSE], hist |-> <<>>, sleeps |-> 0]

\* A whole logical operation: the loop run to its end on the attempts' events
\* evs (one per attempt, in order; evs is at least as long as the loop runs).
RECURSIVE RunLoop(_, _)
RunLoop(s, evs) ==
    IF s.pc = "done" THEN s
    ELSE IF s.pc = "delay" THEN RunLoop(AfterDelay(s), evs)
    ELSE IF LoopContinues(s.attempt, s.retries)
         THEN RunLoop(AfterAttempt(s, AttemptResult(s.variant, s.command, Head(evs))),
                      Tail(evs))
         ELSE AfterLoop(s)

\* ------------------------------------------------------------- kubeadm functions
\* maxRetries of execSSH and uploadAndExecScript when the caller passes none.
DefaultRetries == 3

Hosts == 1..(1 + NumJoiners)
Primary == 1
Joiners == Hosts \ {Primary}
\* The caller's two joiner lists: joiners alternate between the two roles.
GroupHosts(g) == IF g = "controlPlane" THEN {h \in Joiners : h % 2 = 0}
                 ELSE {h \in Joiners : h % 2 = 1}
Groups == {"controlPlane", "worker"}
GroupOf(h) == IF h % 2 = 0 THEN "controlPlane" ELSE "worker"

\* The hosts of a list in the order the caller gives them.
RECURSIVE Ordered(_)
Ordered(S) == IF S = {} THEN <<>>
              ELSE LET m == CHOOSE x \in S : \A y \in S : x <= y
                   IN  <<m>> \o Ordered(S \ {m})

\* An optional field of a result: absent (undefined) or a text.
None == [present |-> FALSE, text |-> <<>>]
Some(t) == [present |-> TRUE, text |-> t]

\* One event per attempt of a logical operation.
EventSeqs(variant, n) == [1..n -> AttemptEvents(variant)]

\* The events of the attempts the executor really made.
UsedEvents(fin, evs) == {evs[i] : i \in 1..Len(fin.hist)}

\* The commands a finished logical operation started on its host.
Started(fin, evs) ==
    IF \E ev \in UsedEvents(fin, evs) : CommandStarted(ev)
    THEN {[host |-> fin.host, command |-> fin.command]}
    ELSE {}

\* Promises.
Idle == [state |-> "idle", value |-> [host |-> 0, success |-> FALSE, error |-> None]]
Pending == [Idle EXCEPT !.state = "pending"]
Fulfilled(v) == [state |-> "fulfilled", value |-> v]
Rejected(msg) ==
    [state |-> "rejected", value |-> [host |-> 0, success |-> FALSE, error |-> Some(msg)]]

\* A combinator that is fulfilled as soon as one task is (as Promise.any).
PromiseAllFirst(tasks, list) ==
    IF \E i \in 1..Len(list) : tasks[list[i]].state = "fulfilled"
    THEN [state |-> "fulfilled", value |-> [i \in 1..Len(list) |-> tasks[list[i]].value]]
    ELSE [state |-> "pending", value |-> <<>>]

\* Promise.all over the tasks of the hosts in list: rejected as soon as one task
\* is, fulfilled with the values in list order once all are, pending otherwise.
PromiseAll(tasks, list) ==
    IF \E i \in 1..Len(list) : tasks[list[i]].state = "rejected"
    THEN [state |-> "rejected", value |-> <<>>]
    ELSE IF \A i \in 1..Len(list) : tasks[list[i]].state = "fulfilled"
         THEN [state |-> "fulfilled", value |-> [i \in 1..Len(list) |-> tasks[list[i]].value]]
         ELSE [state |-> "pending", value |-> <<>>]

\* The per-host function of setupNodes without its try/catch: a failure of
\* uploadAndExecScript rejects the host's promise.
SetupTaskNoCatch(h, fin) ==
    IF ~fin.result.threw
    THEN Fulfilled([host |-> h, success |-> TRUE, error |-> None])
    ELSE Rejected(fin.result.message)

\* The per-host function of setupNodes with a catch that reports success.
SetupTaskSwallow(h, fin) ==
    Fulfilled([host |-> h, success |-> TRUE, error |-> None])

\* The per-host function of setupNodes writing every host's result under one
\* shared host name.
SetupTaskSharedSlot(h, fin) ==
    IF ~fin.result.threw
    THEN Fulfilled([host |-> Primary, success |-> TRUE, error |-> None])
    ELSE Fulfilled([host |-> Primary, success |-> FALSE, error |-> Some(fin.result.message)])

\* The per-host function of setupNodes, given the finished uploadAndExecScript.
SetupTask(h, fin) ==
    IF ~fin.result.threw
    THEN Fulfilled([host |-> h, success |-> TRUE, error |-> None])
    ELSE Fulfilled([host |-> h, success |-> FALSE, error |-> Some(fin.result.message)])

\* execSSH(config, command): execSSHInternal under withRetry.
ExecSSH(h, command, evs) ==
    RunLoop(EnterLoop("withRetry", DefaultRetries, h, command), evs)

\* ------------------------------------------------------------- initControlPlane
Whitespace == {" ", "\n"}

RECURSIVE TrimStart(_)
TrimStart(t) == IF t # <<>> /\ Head(t) \in Whitespace THEN TrimStart(Tail(t)) ELSE t

RECURSIVE TrimEnd(_)
TrimEnd(t) == IF t # <<>> /\ t[Len(t)] \in Whitespace
              THEN TrimEnd(SubSeq(t, 1, Len(t) - 1)) ELSE t

\* String.prototype.trim
Trim(t) == TrimEnd(TrimStart(t))

\* A failure return that loses the error text.
InitFailedNoError(msg) ==
    [success |-> FALSE, kubeconfig |-> None, joinCommand |-> None,
     controlPlaneJoinCommand |-> None, error |-> None]

\* return { success: false, error: error.message }
InitFailed(msg) ==
    [success |-> FALSE, kubeconfig |-> None, joinCommand |-> None,
     controlPlaneJoinCommand |-> None, error |-> Some(msg)]

\* The catch around `kubeadm token create` treating the failure as fatal.
JoinCommandFailedFatal(kubeconfig, msg) ==
    [success |-> FALSE, kubeconfig |-> None, joinCommand |-> None,
     controlPlaneJoinCommand |-> None, error |-> Some(msg)]

\* The return in the catch around `kubeadm token create`.
JoinCommandFailed(kubeconfig, msg) ==
    [success |-> TRUE, kubeconfig |-> Some(kubeconfig), joinCommand |-> None,
     controlPlaneJoinCommand |-> None,
     error |-> Some(<<"init-ok-but-join-command-failed:">> \o msg)]

\* The control-plane join command built whatever the key.
ControlPlaneJoinCommandAnyKey(joinCommand, certKeyOutput) ==
    Some(joinCommand \o <<" ", "--control-plane", " ", "--certificate-key", " ">>
         \o Trim(certKeyOutput))

\* The control-plane join command built from the upload-certs output, if any.
ControlPlaneJoinCommand(joinCommand, certKeyOutput) ==
    LET certificateKey == Trim(certKeyOutput)
    IN  IF certificateKey # <<>> /\ joinCommand # <<>>
        THEN Some(joinCommand \o <<" ", "--control-plane", " ", "--certificate-key", " ">>
                  \o certificateKey)
        ELSE None

\* The final return without the kubeconfig.
InitSucceededNoKubeconfig(kubeconfig, joinCommand, controlPlaneJoinCommand) ==
    [success |-> TRUE, kubeconfig |-> None, joinCommand |-> Some(joinCommand),
     controlPlaneJoinCommand |-> controlPlaneJoinCommand, error |-> None]

\* The final return of initControlPlane.
InitSucceeded(kubeconfig, joinCommand, controlPlaneJoinCommand) ==
    [success |-> TRUE, kubeconfig |-> Some(kubeconfig), joinCommand |-> Some(joinCommand),
     controlPlaneJoinCommand |-> controlPlaneJoinCommand, error |-> None]

\* A warning that does not say what failed.
CertWarningNoMessage(msg) == <<"control-plane-join-command-failed:">>

\* console.warn in the catch around the upload-certs step.
CertWarning(msg) == <<"control-plane-join-command-failed:">> \o msg

InitSteps == {"uploadContent", "kubeadmInit", "kubeconfig", "token", "uploadCerts"}

NoInitResult ==
    [success |-> FALSE, kubeconfig |-> None, joinCommand |-> None,
     controlPlaneJoinCommand |-> None, error |-> None]

\* ------------------------------------------------------------- joinCluster
JoinPattern == <<"kubeadm", " ", "join">>
JoinReplacement ==
    <<"sudo", " ", "kubeadm", " ", "join", " ", "--cri-socket=/run/cri-dockerd.sock">>

\* Where the regular expression /kubeadm join/ first matches in cmd (0: nowhere).
FirstMatch(cmd) ==
    LET at == {i \in 1..(Len(cmd) - Len(JoinPattern) + 1) :
                 SubSeq(cmd, i, i + Len(JoinPattern) - 1) = JoinPattern}
    IN  IF at = {} THEN 0 ELSE CHOOSE i \in at : \A j \in at : i <= j

\* The rewrite with the flag put in front of the subcommand instead of after it.
JoinRewriteFlagFirst(joinCommand) ==
    LET i == FirstMatch(joinCommand)
    IN  IF i = 0 THEN joinCommand
        ELSE SubSeq(joinCommand, 1, i - 1)
             \o <<"sudo", " ", "--cri-socket=/run/cri-dockerd.sock", " ", "kubeadm", " ", "join">>
             \o SubSeq(joinCommand, i + Len(JoinPattern), Len(joinCommand))

\* The rewrite with a global pattern: every occurrence is replaced.
RECURSIVE JoinRewriteAll(_)
JoinRewriteAll(joinCommand) ==
    LET i == FirstMatch(joinCommand)
    IN  IF i = 0 THEN joinCommand
        ELSE SubSeq(joinCommand, 1, i - 1) \o JoinReplacement
             \o JoinRewriteAll(SubSeq(joinCommand, i + Len(JoinPattern), Len(joinCommand)))

\* joinCommand.replace(/kubeadm join/, 'sudo kubeadm join --cri-socket=...')
JoinRewrite(joinCommand) ==
    LET i == FirstMatch(joinCommand)
    IN  IF i = 0 THEN joinCommand
        ELSE SubSeq(joinCommand, 1, i - 1) \o JoinReplacement
             \o SubSeq(joinCommand, i + Len(JoinPattern), Len(joinCommand))

\* The per-host function of joinCluster without its try/catch.
JoinTaskNoCatch(h, fin) ==
    IF ~fin.result.threw
    THEN Fulfilled([host |-> h, success |-> TRUE, error |-> None])
    ELSE Rejected(fin.result.message)

\* The per-host function of joinCluster, given the finished execSSH.
JoinTask(h, fin) ==
    IF ~fin.result.threw
    THEN Fulfilled([host |-> h, success |-> TRUE, error |-> None])
    ELSE Fulfilled([host |-> h, success |-> FALSE, error |-> Some(fin.result.message)])

\* The per-host function when joinCommand is undefined, were the rewrite
\* outside the try: the TypeError rejects the host's promise.
JoinTaskNoCommandRejects(h) ==
    Rejected(<<"TypeError:cannot-read-properties-of-undefined">>)

\* The per-host function when joinCommand is undefined: joinCommand.replace
\* throws a TypeError inside the try, before any command is sent.
JoinTaskNoCommand(h) ==
    Fulfilled([host |-> h, success |-> FALSE,
               error |-> Some(<<"TypeError:cannot-read-properties-of-undefined">>)])

\* The texts the rewrite is tried on: up to MaxFragments pieces in a row.
Fragments ==
    {<<"kubeadm">>, <<" ">>, <<"join">>, JoinPattern, <<"sudo", " ">>,
     <<" ", "10.0.0.1:6443", " ", "--token", " ", "abc">>}

RECURSIVE Texts(_)
Texts(n) == IF n = 0 THEN {<<>>}
            ELSE Texts(n - 1) \cup {t \o f : t \in Texts(n - 1), f \in Fragments}

\* ------------------------------------------------------------- example main (K3s)
\* CONFIG.MASTER_COUNT
MASTER_COUNT == 3
\* retries: 3 in the options main passes to initK3s and joinK3sMaster.
K3sRetries == 3
\* timeout/retries default of SSHClient.exec when main passes no options.
ExecDefaultRetries == 3

FirstMaster == 1
OtherMasters == 2..MASTER_COUNT

\* What `kubectl get nodes -o wide` prints for n nodes: a header and n rows.
RECURSIVE NodeRows(_)
NodeRows(n) == IF n = 0 THEN <<>> ELSE NodeRows(n - 1) \o <<"node-row", "\n">>
NodesTable(n) == <<"NAME-STATUS-ROLES", "\n">> \o NodeRows(n)

\* What the verification command may print when it exits 0.
NodesOutputs == {<<>>, <<"\n">>} \cup {NodesTable(n) : n \in 0..MaxNodes}

\* text.split('\n')
RECURSIVE SplitLines(_)
SplitLines(t) ==
    IF \A i \in 1..Len(t) : t[i] # "\n" THEN <<t>>
    ELSE LET i == CHOOSE k \in 1..Len(t) : t[k] = "\n" /\ \A j \in 1..(k - 1) : t[j] # "\n"
         IN  <<SubSeq(t, 1, i - 1)>> \o SplitLines(SubSeq(t, i + 1, Len(t)))

\* nodeCount: the lines of the trimmed output, less the header line.
NodeCount(stdout) == Len(SplitLines(Trim(stdout))) - 1

\* console.warn for a node count that is not the expected one.
MismatchWarning(expected, actual) ==
    <<"node-count-unexpected:expected">> \o NumStr(expected) \o <<",actual">>
    \o NumStr(actual)

\* Verification that treats an unexpected node count as an error.
VerificationStrict(nodesResult) ==
    IF nodesResult.success /\ nodesResult.stdout # <<>>
    THEN IF NodeCount(nodesResult.stdout) = MASTER_COUNT
         THEN [warns |-> {}, thrown |-> None]
         ELSE [warns |-> {},
               thrown |-> Some(MismatchWarning(MASTER_COUNT,
                                               NodeCount(nodesResult.stdout)))]
    ELSE [warns |-> {<<"cannot-get-node-status">>, <<"error:">> \o nodesResult.message},
          thrown |-> None]

\* Step 6 of main, given the result of ssh.exec: the console.warn lines it
\* writes and the error it throws (none).
Verification(nodesResult) ==
    IF nodesResult.success /\ nodesResult.stdout # <<>>
    THEN IF NodeCount(nodesResult.stdout) = MASTER_COUNT
         THEN [warns |-> {}, thrown |-> None]
         ELSE [warns |-> {MismatchWarning(MASTER_COUNT, NodeCount(nodesResult.stdout))},
               thrown |-> None]
    ELSE [warns |-> {<<"cannot-get-node-status">>, <<"error:">> \o nodesResult.message},
          thrown |-> None]

\* Step 6 of the earlier main: it prints the listing and never counts it.
VerificationOld(nodesResult) ==
    IF nodesResult.success /\ nodesResult.stdout # <<>>
    THEN [warns |-> {}, thrown |-> None]
    ELSE [warns |-> {<<"cannot-get-node-status">>}, thrown |-> None]

\* The milliseconds the earlier main waits before it lists the nodes; the
\* main of the example does not wait.
SettleDelay == 30000
SettleWait(program) == IF program = "k3sOld" THEN SettleDelay ELSE 0

\* The element { server, result } a join promise of main fulfils with.
K3sJoinResult(h, result) ==
    Fulfilled([host |-> h, success |-> result.success, error |-> Some(result.message)])

\* A filter that finds no failed join.
FailedJoinsNone(tasks) == {}

\* joinResults.filter(({ result }) => !result.success)
FailedJoins(tasks) == {h \in DOMAIN tasks : ~tasks[h].value.success}

NoExecutionResult ==
    [success |-> FALSE, message |-> <<>>, stdout |-> <<>>, stderr |-> <<>>, exitCode |-> -1]

\* --- script deployment
\* basename(scriptPath) of the scripts SSHClient.script is called with.
Scripts == {<<"k3s_init.sh">>, <<"k3s_join_master.sh">>}
DeployVariants == {"script", "uploadAndExecScript"}

\* The remote path a deployment writes the script to: SSHClient.script makes
\* it from the script's name and Date.now(); setupNodes passes
\* uploadAndExecScript the same path every time.
RemotePath(variant, script, now) ==
    IF variant = "script"
    THEN <<"/tmp/">> \o script \o <<".">> \o NumStr(now) \o <<".sh">>
    ELSE SetupPath

\* The script a deployment uploads: setupNodes always uploads the setup script.
DeployedScript(variant, script) ==
    IF variant = "script" THEN script ELSE <<"setup.sh">>

\* A deployment started at time now.
Flight(id, variant, host, script, now) ==
    [id |-> id, variant |-> variant, host |-> host,
     script |-> DeployedScript(variant, script),
     path |-> RemotePath(variant, script, now)]

\* --- connection configuration
\* A JavaScript value used as a condition: a string that is present and
\* not empty.
Truthy(o) == o.present /\ o.text # <<>>

\* The values a credential option of the caller's configuration can have.
CredValues(name) == {None, Some(<<>>), Some(<<name>>)}
AuthConfigs ==
    [sshPubKey : CredValues("key"), sshPubKeyPath : CredValues("path"),
     sshPasswd : CredValues("pw"), passphrase : CredValues("phrase")]

\* readFileSync(path, 'utf-8') of a readable file.
FileContent(path) == <<"content-of">> \o path

\* A configuration that could not be built, with the message of the error.
NoConnConfig(message) ==
    [built |-> FALSE, privateKey |-> None, password |-> None,
     passphrase |-> None, message |-> message]
ConnConfig(privateKey, password, passphrase) ==
    [built |-> TRUE, privateKey |-> privateKey, password |-> password,
     passphrase |-> passphrase, message |-> <<>>]

\* SSHClient.buildConnectionConfig; it throws when the key file cannot be
\* read and when no credential is supplied.
BuildConnectionConfig(auth, readable) ==
    IF Truthy(auth.sshPubKey)
    THEN ConnConfig(Some(auth.sshPubKey.text), None, None)
    ELSE IF Truthy(auth.sshPubKeyPath)
    THEN IF readable
         THEN ConnConfig(Some(FileContent(auth.sshPubKeyPath.text)), None, None)
         ELSE NoConnConfig(<<"enoent:">> \o auth.sshPubKeyPath.text)
    ELSE IF Truthy(auth.sshPasswd)
    THEN ConnConfig(None, Some(auth.sshPasswd.text), None)
    ELSE NoConnConfig(<<"no-credential">>)

\* createConnectionConfig of kube/ssh.ts: SSHConfig has password, privateKey
\* and passphrase and no key file path; it never throws.
CreateConnectionConfig(auth) ==
    IF Truthy(auth.sshPasswd)
    THEN ConnConfig(None, Some(auth.sshPasswd.text), None)
    ELSE IF Truthy(auth.sshPubKey)
    THEN ConnConfig(Some(auth.sshPubKey.text), None,
                    IF Truthy(auth.passphrase) THEN Some(auth.passphrase.text)
                    ELSE None)
    ELSE ConnConfig(None, None, None)

\* The configuration execCommandOnce of execRemoteCommand builds; it resolves
\* a failed result instead of connecting when there is none.
ExecRemoteConnConfig(auth, readable) ==
    IF Truthy(auth.sshPubKey)
    THEN ConnConfig(Some(auth.sshPubKey.text), None, None)
    ELSE IF Truthy(auth.sshPubKeyPath)
    THEN IF readable
         THEN ConnConfig(Some(FileContent(auth.sshPubKeyPath.text)), None, None)
         ELSE NoConnConfig(<<"read-key-file-failed:", "enoent:">> \o auth.sshPubKeyPath.text)
    ELSE IF Truthy(auth.sshPasswd)
    THEN ConnConfig(None, Some(auth.sshPasswd.text), None)
    ELSE NoConnConfig(<<"no-credential">>)

ConfigBuilders == {"buildConnectionConfig", "createConnectionConfig", "execRemoteCommand"}

\* The caller's options a builder reads: SSHConfig of kube/ssh.ts has no key
\* file path, the other two have no passphrase.
Supplied(fn, auth) ==
    IF fn = "createConnectionConfig"
    THEN [auth EXCEPT !.sshPubKeyPath = None]
    ELSE [auth EXCEPT !.passphrase = None]

BuildConfig(fn, auth, readable) ==
    CASE fn = "buildConnectionConfig" -> BuildConnectionConfig(Supplied(fn, auth), readable)
      [] fn = "createConnectionConfig" -> CreateConnectionConfig(Supplied(fn, auth))
      [] OTHER -> ExecRemoteConnConfig(Supplied(fn, auth), readable)

\* --- what an attempt writes and reports
\* Two values a secret (key material, passphrase, password) can have.
Secrets == {<<"secret-a">>, <<"secret-b">>}
SecretValues == {None} \cup {Some(x) : x \in Secrets}
SecretAuths ==
    [sshPubKey : SecretValues, sshPubKeyPath : {None, Some(<<"path">>)},
     sshPasswd : SecretValues, passphrase : SecretValues]

\* No credential is supplied to the builder.
NoCredential(fn, auth) ==
    LET a == Supplied(fn, auth)
    IN  ~Truthy(a.sshPubKey) /\ ~Truthy(a.sshPubKeyPath) /\ ~Truthy(a.sshPasswd)

\* The SSHConfig of kube/ssh.ts for host h with the credentials auth.
SshConfig(h, auth) ==
    [host |-> HostAddr(h), password |-> auth.sshPasswd, privateKey |-> auth.sshPubKey,
     passphrase |-> auth.passphrase]

\* command.substring(0, 50) and the dots that follow a longer command; a
\* command is counted in pieces here.
LogPrefixLen == 50
LogPrefix(command) ==
    IF Len(command) > LogPrefixLen
    THEN SubSeq(command, 1, LogPrefixLen) \o <<"...">>
    ELSE command

\* A logger that also writes the password it connects with.
ExecSSHInternalLogVerbose(config, command, ev) ==
    <<<<"ssh-connecting:">> \o config.host \o config.password.text>>

\* The console lines of one execSSHInternal(config, command).
ExecSSHInternalLog(config, command, ev) ==
    <<<<"ssh-connecting:">> \o config.host>>
    \o (IF ~ConnReady(ev)
        THEN <<<<"ssh-connection-error:">> \o config.host \o ConnErrorText(ev)>>
        ELSE <<<<"ssh-connected:">> \o config.host>>
             \o (IF ev = "execError" THEN <<>>
                 ELSE <<<<"ssh-exec:">> \o config.host \o LogPrefix(command)>>)
             \o (CASE ev \in {"close0a", "close0b"} ->
                        <<<<"ssh-command-ok:">> \o config.host>>
                   [] ev = "close1" ->
                        <<<<"ssh-error:">> \o config.host
                          \o ExecSSHInternal(command, ev).message>>
                   [] ev = "streamError" ->
                        <<<<"ssh-connection-error:">> \o config.host \o ConnErrorText(ev)>>
                   [] OTHER -> <<>>))
    \o (IF EndCalled(ev) THEN <<<<"ssh-closed:">> \o config.host>> ELSE <<>>)

AttemptFunctions == {"execSSHInternal", "executeCommand"}

\* The builder each of them hands its credentials to.
BuilderOf(fn) ==
    IF fn = "execSSHInternal" THEN "createConnectionConfig" ELSE "buildConnectionConfig"

\* The events one attempt of fn can end with.
ObservedEvents(fn) ==
    IF fn = "execSSHInternal" THEN RetryEvents("withRetry")
    ELSE RetryEvents("executeWithRetry")

\* Everything one attempt of fn on host h shows: the console lines it writes
\* and the message of its result or error.  SSHClient writes no line; when
\* its configuration cannot be built the message is that of the exception.
Emitted(fn, auth, readable, h, command, ev) ==
    IF fn = "execSSHInternal"
    THEN [logs |-> ExecSSHInternalLog(SshConfig(h, auth), command, ev),
          message |-> ExecSSHInternal(command, ev).message]
    ELSE LET c == BuildConnectionConfig(Supplied(BuilderOf(fn), auth), readable)
         IN  [logs |-> <<>>,
              message |-> IF c.built THEN ExecuteCommand(command, ev).message
                          ELSE c.message]

\* ------------------------------------------------------------- state
VARIABLES
    prog,        \* the entry point this behaviour runs
    rt,          \* "retry": the executor's locals and what it has done
    rtEvs,       \* "retry": what happened to each attempt made (history)
    rw,          \* "rewrite": a command text and what the join rewrite made of it
    cc,          \* "config": the credential options and the configuration built
    dp,          \* "deploy": the clock and the script deployments in flight
    ob,          \* "observe": what two attempts with different secrets showed
    ss,          \* "session": the connection of one attempt of SSHClient
    jk,          \* "joinMaster": a call of joinK3sMaster and what the script received
    apc,         \* "bootstrap", "join": where the caller is
    setupTask,   \* setupNodes: the promise of each host's function
    prepOutcome, \* what each host's uploadAndExecScript ended with (history)
    setupRet,    \* what setupNodes gave the caller
    settled,     \* setupNodes: the hosts in the order their functions settled (history)
    ipc,         \* initControlPlane: the step it is at
    initLocals,  \* initControlPlane: kubeconfig and joinCommand
    initRet,     \* what initControlPlane gave the caller
    initOutcome, \* what each step of initControlPlane ended with (history)
    conns,       \* the steps of initControlPlane that connected to the primary, each
                 \* with a Client of its own (history)
    joinArg,     \* joinCluster: the joinCommand argument of each group's call
    joinTask,    \* joinCluster: the promise of each host's function
    joinOutcome, \* what each host's execSSH ended with (history)
    joinRet,     \* what each group's joinCluster gave the caller
    k3sTask,     \* "k3s": the join promise of each other master
    thrown,      \* "k3s": the error main threw into its catch
    nodesResult, \* "k3s": what ssh.exec gave the verification step
    waited,      \* "k3s": the milliseconds main waited once the joins had settled
    sent,        \* the commands started on remote hosts, as {host, command}
    log          \* console.warn lines

rvars == <<rt, rtEvs, rw, cc, dp, ob, ss, jk>>
setupVars == <<setupTask, prepOutcome, setupRet, settled>>
initVars == <<ipc, initLocals, initRet, initOutcome, conns>>
joinVars == <<joinArg, joinTask, joinOutcome, joinRet>>
k3sVars == <<k3sTask, thrown, nodesResult, waited>>
kubeadmVars == <<apc, setupVars, initVars, joinVars, sent, log>>
vars == <<prog, rvars, jk, kubeadmVars, k3sVars>>

\* "bootstrap": setupNodes on all hosts, then initControlPlane on the primary.
\* "join": initControlPlane on the primary, then joinCluster for each group.
\* "k3s": main of the example.
Programs == {"retry", "rewrite", "config", "deploy", "observe", "session", "joinMaster", "bootstrap", "join", "k3s", "k3sOld"}
\* "k3sOld": the earlier main, which differs from step 6 on.
K3sPrograms == {"k3s", "k3sOld"}

RetryIdle == [EnterLoop("executeWithRetry", 0, 0, CmdGeneric) EXCEPT
                 !.attempt = 0, !.pc = "idle"]

ConfigIdle ==
    [done |-> FALSE, fn |-> "buildConnectionConfig",
     auth |-> [sshPubKey |-> None, sshPubKeyPath |-> None, sshPasswd |-> None,
               passphrase |-> None],
     config |-> NoConnConfig(<<>>)]

ObserveIdle ==
    [done |-> FALSE, fn |-> "executeCommand", ev |-> "close0a",
     authA |-> ConfigIdle.auth, authB |-> ConfigIdle.auth,
     shownA |-> [logs |-> <<>>, message |-> <<>>],
     shownB |-> [logs |-> <<>>, message |-> <<>>]]

\* --- joinK3sMaster and the join script
\* The address of the primary a caller passes as masterIP.
MasterIP == <<"10.0.0.1">>

\* K3S_TOKEN="${1:-123456}"
DefaultToken == <<"123456">>

\* The versions of joinK3sMaster in the repository: the one that treats
\* k3sToken as optional, the one that requires it, and the one on SSHClient.
JoinMasterVersions == {"optionalToken", "requiredToken", "sshClient"}

\* What a caller can pass as k3sToken: nothing (where it is optional), the
\* empty text, a token.
TokenValues(version) ==
    IF version = "optionalToken"
    THEN {None, Some(<<>>), Some(<<"K10abc">>)}
    ELSE {Some(<<>>), Some(<<"K10abc">>)}

\* The args joinK3sMaster hands to the script runner.
JoinK3sMasterArgs(version, k3sToken, masterIP) ==
    IF version = "optionalToken"
    THEN IF Truthy(k3sToken) THEN <<k3sToken.text, masterIP>> ELSE <<masterIP>>
    ELSE <<k3sToken.text, masterIP>>

\* How a runner puts the args on the command line.  append: the script's text
\* followed by the quoted args; bashC: bash -ec '<script>' followed by the
\* quoted args; file: bash <remotePath> followed by the quoted args.
Runners(version) ==
    CASE version = "optionalToken" -> {"append"}
      [] version = "requiredToken" -> {"append", "bashC"}
      [] OTHER                     -> {"file"}

\* The positional parameters $1, $2, ... the script's text is run with.  After
\* the script's own text the args belong to its last command and the shell's
\* parameters stay empty; after bash -c the first arg is $0; after a script
\* file they are $1, $2, ...
Positional(runner, args) ==
    CASE runner = "append" -> <<>>
      [] runner = "bashC"  -> IF args = <<>> THEN <<>> ELSE Tail(args)
      [] OTHER             -> args

\* k3s_join_master.sh: K3S_TOKEN="${1:-123456}" and MASTER_IP="${2}".
JoinScriptVars(positional) ==
    [K3S_TOKEN |-> IF Len(positional) >= 1 /\ positional[1] # <<>>
                   THEN positional[1] ELSE DefaultToken,
     MASTER_IP |-> IF Len(positional) >= 2 THEN positional[2] ELSE <<>>]

JoinMasterIdle ==
    [done |-> FALSE, version |-> "optionalToken", runner |-> "append", k3sToken |-> None,
     args |-> <<>>, positional |-> <<>>, script |-> JoinScriptVars(<<>>)]

SessionIdle ==
    [fn |-> "exec", state |-> "disconnected", command |-> "none", timer |-> "none",
     result |-> "none", lateCall |-> "none", chunks |-> 0, lateChunks |-> 0]

NoOutcome == [threw |-> FALSE, value |-> <<>>, message |-> <<>>]

\* --- program "retry"
\* A caller starts one logical operation with a retry count of its choice.
RetryCall ==
    /\ prog = "retry"
    /\ rt.pc = "idle"
    /\ \E v \in Variants, n \in 0..MaxAttempts : rt' = EnterLoop(v, n, 0, CmdGeneric)
    /\ UNCHANGED <<prog, rtEvs, rw, cc, dp, ob, ss, jk, kubeadmVars, k3sVars>>

\* One iteration of the loop: run the operation once and look at its result.
RetryAttempt ==
    /\ prog = "retry"
    /\ rt.pc = "loop"
    /\ LoopContinues(rt.attempt, rt.retries)
    /\ \E ev \in RetryEvents(rt.variant) :
         /\ rt' = AfterAttempt(rt, AttemptResult(rt.variant, rt.command, ev))
         /\ rtEvs' = Append(rtEvs, ev)
    /\ UNCHANGED <<prog, rw, cc, dp, ob, ss, jk, kubeadmVars, k3sVars>>

\* The inter-attempt delay has elapsed: next iteration.
RetryDelayDone ==
    /\ prog = "retry"
    /\ rt.pc = "delay"
    /\ rt' = AfterDelay(rt)
    /\ UNCHANGED <<prog, rtEvs, rw, cc, dp, ob, ss, jk, kubeadmVars, k3sVars>>

\* The loop condition is false: return (or throw) the exhaustion outcome.
RetryExhaust ==
    /\ prog = "retry"
    /\ rt.pc = "loop"
    /\ ~LoopContinues(rt.attempt, rt.retries)
    /\ rt' = AfterLoop(rt)
    /\ UNCHANGED <<prog, rtEvs, rw, cc, dp, ob, ss, jk, kubeadmVars, k3sVars>>

\* --- program "rewrite"
\* The join rewrite applied to a command text.
Rewrite ==
    /\ prog = "rewrite"
    /\ ~rw.done
    /\ rw' = [rw EXCEPT !.done = TRUE, !.out = JoinRewrite(rw.in)]
    /\ UNCHANGED <<prog, rt, rtEvs, cc, dp, ob, ss, jk, kubeadmVars, k3sVars>>

\* --- program "joinMaster"
\* joinK3sMaster({serverIP, masterIP, k3sToken}) up to the start of the script.
JoinK3sMaster ==
    /\ prog = "joinMaster"
    /\ ~jk.done
    /\ \E version \in JoinMasterVersions :
         \E k3sToken \in TokenValues(version), runner \in Runners(version) :
           LET args == JoinK3sMasterArgs(version, k3sToken, MasterIP)
               positional == Positional(runner, args)
           IN  jk' = [done |-> TRUE, version |-> version, runner |-> runner,
                      k3sToken |-> k3sToken, args |-> args, positional |-> positional,
                      script |-> JoinScriptVars(positional)]
    /\ UNCHANGED <<prog, rt, rtEvs, rw, cc, dp, ob, ss, kubeadmVars, k3sVars>>

\* --- program "bootstrap": setupNodes
\* The caller calls setupNodes(all hosts): configs.map starts every host's function.
\* --- program "config"
\* A connection is about to be made: one of the builders turns the caller's
\* credential options into the configuration handed to conn.connect.
BuildConfigCall ==
    /\ prog = "config"
    /\ ~cc.done
    /\ \E fn \in ConfigBuilders, auth \in AuthConfigs, readable \in BOOLEAN :
         cc' = [done |-> TRUE, fn |-> fn, auth |-> Supplied(fn, auth),
                config |-> BuildConfig(fn, auth, readable)]
    /\ UNCHANGED <<prog, rt, rtEvs, rw, dp, ob, ss, jk, kubeadmVars, k3sVars>>

\* --- program "deploy"
FlightIds == {f.id : f \in dp.flights}

\* A millisecond passes.
ClockTick ==
    /\ prog = "deploy"
    /\ dp.now < MaxClock
    /\ dp' = [dp EXCEPT !.now = @ + 1]
    /\ UNCHANGED <<prog, rt, rtEvs, rw, cc, ob, ss, jk, kubeadmVars, k3sVars>>

\* A caller starts a script deployment on a host: the remote path is made,
\* the script is uploaded to it and run.
DeployStart ==
    /\ prog = "deploy"
    /\ \E id \in (1..MaxDeploys) \ FlightIds, v \in DeployVariants, h \in Hosts,
          sc \in Scripts :
         dp' = [dp EXCEPT !.flights = @ \cup {Flight(id, v, h, sc, dp.now)}]
    /\ UNCHANGED <<prog, rt, rtEvs, rw, cc, ob, ss, jk, kubeadmVars, k3sVars>>

\* The attempt of flight f ended for the executor (connection error in
\* mid-stream, or timeout) while the script still runs on the host; after the
\* inter-attempt delay the executor deploys again.
DeployRetry ==
    /\ prog = "deploy"
    /\ dp.now < MaxClock
    /\ \E f \in dp.flights, id \in (1..MaxDeploys) \ FlightIds, t \in (dp.now + 1)..MaxClock :
         dp' = [now |-> t,
                flights |-> dp.flights \cup
                    {[f EXCEPT !.id = id,
                               !.path = RemotePath(f.variant, f.script, t)]}]
    /\ UNCHANGED <<prog, rt, rtEvs, rw, cc, ob, ss, jk, kubeadmVars, k3sVars>>

\* The script of a flight ends on the host.
DeployEnd ==
    /\ prog = "deploy"
    /\ \E f \in dp.flights : dp' = [dp EXCEPT !.flights = @ \ {f}]
    /\ UNCHANGED <<prog, rt, rtEvs, rw, cc, ob, ss, jk, kubeadmVars, k3sVars>>

\* --- program "observe"
\* The same attempt is made twice, with credentials that differ only in the
\* values of the secrets and with the same answer of the host; what each shows
\* is kept.
Observe ==
    /\ prog = "observe"
    /\ ~ob.done
    /\ \E fn \in AttemptFunctions, a \in SecretAuths, b \in SecretAuths,
          readable \in BOOLEAN, h \in Hosts :
         \E ev \in ObservedEvents(fn) :
           /\ \A f \in DOMAIN a : a[f].present = b[f].present
           /\ a.sshPubKeyPath = b.sshPubKeyPath
           /\ NoCredential(BuilderOf(fn), a) <=> ev = "noCredential"
           /\ ob' = [done |-> TRUE, fn |-> fn, ev |-> ev,
                     authA |-> Supplied(BuilderOf(fn), a),
                     authB |-> Supplied(BuilderOf(fn), b),
                     shownA |-> Emitted(fn, a, readable, h, CmdGeneric, ev),
                     shownB |-> Emitted(fn, b, readable, h, CmdGeneric, ev)]
    /\ UNCHANGED <<prog, rt, rtEvs, rw, cc, dp, ss, jk, kubeadmVars, k3sVars>>

\* --- program "session": one attempt of SSHClient, handler by handler
\* new Client() and conn.connect(connConfig) of executeCommand (fn "exec") or
\* executeScriptViaSFTP (fn "script").
SessionConnect ==
    /\ prog = "session"
    /\ ss.state = "disconnected"
    /\ \E fn \in {"exec", "script"} : ss' = [ss EXCEPT !.fn = fn, !.state = "connecting"]
    /\ UNCHANGED <<prog, rt, rtEvs, rw, cc, dp, ob, jk, kubeadmVars, k3sVars>>

\* conn.on('error') before the connection is ready: the attempt resolves.
SessionConnectError ==
    /\ prog = "session"
    /\ ss.state = "connecting"
    /\ ss' = [ss EXCEPT !.state = "failed", !.result = "connect-failed"]
    /\ UNCHANGED <<prog, rt, rtEvs, rw, cc, dp, ob, jk, kubeadmVars, k3sVars>>

\* conn.on('ready').
SessionReady ==
    /\ prog = "session"
    /\ ss.state = "connecting"
    /\ ss' = [ss EXCEPT !.state = "ready"]
    /\ UNCHANGED <<prog, rt, rtEvs, rw, cc, dp, ob, jk, kubeadmVars, k3sVars>>

\* conn.exec of the command calls back with the stream: the handlers are
\* registered and the timer is armed.
SessionExec ==
    /\ prog = "session"
    /\ ss.state = "ready" /\ ss.command = "none"
    /\ ss' = [ss EXCEPT !.state = "executing", !.command = "running", !.timer = "armed"]
    /\ UNCHANGED <<prog, rt, rtEvs, rw, cc, dp, ob, jk, kubeadmVars, k3sVars>>

\* executeScriptViaSFTP reads the local script with readFileSync inside the
\* SFTP callback, outside any try: when the file cannot be read the exception
\* leaves the callback, nothing calls resolve or conn.end(), and no timer has
\* been armed yet.
SessionReadScriptThrows ==
    /\ prog = "session"
    /\ ss.fn = "script" /\ ss.state = "ready" /\ ss.command = "none"
    /\ ss' = [ss EXCEPT !.command = "aborted"]
    /\ UNCHANGED <<prog, rt, rtEvs, rw, cc, dp, ob, jk, kubeadmVars, k3sVars>>

\* A 'data' event of the stream: the chunk is appended and handed to onStdout
\* or onStderr.  The handlers stay registered until the stream closes; nothing
\* removes them or makes them look at whether the attempt has resolved, so a
\* chunk the library delivers between the timeout's conn.end() and the
\* stream's close still reaches the callback.
SessionData ==
    /\ prog = "session"
    /\ ss.command = "running"
    /\ ss.chunks + ss.lateChunks < MaxChunks
    /\ ss' = IF ss.result = "none"
             THEN [ss EXCEPT !.chunks = @ + 1]
             ELSE [ss EXCEPT !.lateChunks = @ + 1]
    /\ UNCHANGED <<prog, rt, rtEvs, rw, cc, dp, ob, jk, kubeadmVars, k3sVars>>

\* The timer fires: (script: conn.exec of the delete,) conn.end(), resolve.
SessionTimeout ==
    /\ prog = "session"
    /\ ss.timer = "armed"
    /\ ss' = [ss EXCEPT !.timer = "fired", !.state = "closed",
                        !.result = IF @ = "none" THEN "timeout" ELSE @]
    /\ UNCHANGED <<prog, rt, rtEvs, rw, cc, dp, ob, jk, kubeadmVars, k3sVars>>

\* The stream's close event, when the command ends or when the connection
\* that carried it goes down: clearTimeout, then executeCommand ends and
\* resolves, while executeScriptViaSFTP first calls conn.exec of the delete,
\* whatever the state of the connection.  On an ended connection that call
\* either throws out of the handler or reports an error to the callback,
\* which does not look at it.
SessionStreamClose ==
    /\ prog = "session"
    /\ ss.command = "running"
    /\ \E late \in {"thrown", "ignored"} :
         ss' = [ss EXCEPT
                  !.command = "closed",
                  !.timer = IF @ = "armed" THEN "cleared" ELSE @,
                  !.lateCall = IF ss.fn = "script" /\ ss.state = "closed" THEN late ELSE @,
                  !.state = IF ss.fn = "script" /\ ss.state = "executing"
                            THEN "ready" ELSE "closed",
                  !.result = IF @ # "none" THEN @
                             ELSE IF ss.fn = "script" THEN "none" ELSE "exit"]
    /\ UNCHANGED <<prog, rt, rtEvs, rw, cc, dp, ob, jk, kubeadmVars, k3sVars>>

\* executeScriptViaSFTP: the delete's callback: conn.end() and resolve.
SessionCleanupDone ==
    /\ prog = "session"
    /\ ss.fn = "script" /\ ss.command = "closed" /\ ss.state = "ready"
    /\ ss' = [ss EXCEPT !.state = "closed", !.result = "exit"]
    /\ UNCHANGED <<prog, rt, rtEvs, rw, cc, dp, ob, jk, kubeadmVars, k3sVars>>

CallSetupNodes ==
    /\ prog = "bootstrap"
    /\ apc = "start"
    /\ apc' = "setup"
    /\ setupTask' = [h \in Hosts |-> Pending]
    /\ UNCHANGED <<prog, rvars, k3sVars, prepOutcome, setupRet, settled, initVars, log,
                   joinVars, sent>>

\* Host h's uploadAndExecScript ends (after up to DefaultRetries attempts) and
\* the host's function turns it into its result.
SetupSettle(h) ==
    /\ prog = "bootstrap"
    /\ setupTask[h].state = "pending"
    /\ \E evs \in EventSeqs("uploadAndExecScript", DefaultRetries) :
         LET fin == RunLoop(EnterLoop("uploadAndExecScript", DefaultRetries, h, CmdSetup),
                            evs)
         IN  /\ setupTask' = [setupTask EXCEPT ![h] = SetupTask(h, fin)]
             /\ prepOutcome' = [prepOutcome EXCEPT ![h] = fin.result]
             /\ sent' = sent \cup Started(fin, evs)
    /\ settled' = Append(settled, h)
    /\ UNCHANGED <<prog, rvars, k3sVars, apc, setupRet, initVars, log, joinVars>>

\* await Promise.all(promises) settles and setupNodes returns (or throws).
SetupReturn ==
    /\ prog = "bootstrap"
    /\ apc = "setup"
    /\ PromiseAll(setupTask, Ordered(Hosts)).state # "pending"
    /\ setupRet' = PromiseAll(setupTask, Ordered(Hosts))
    /\ apc' = "setupDone"
    /\ UNCHANGED <<prog, rvars, k3sVars, setupTask, prepOutcome, settled, initVars, log,
                   joinVars, sent>>

\* --- programs "bootstrap" and "join": initControlPlane
\* The caller calls initControlPlane(primary); it does not look at what
\* setupNodes returned.  The promises of setupNodes are gone by then, and
\* with them the order they settled in.
CallInitControlPlane ==
    /\ \/ prog = "bootstrap" /\ apc = "setupDone" /\ setupRet.state = "fulfilled"
       \/ prog = "join" /\ apc = "start"
    /\ apc' = "init"
    /\ ipc' = "uploadContent"
    /\ settled' = <<>>
    /\ UNCHANGED <<prog, rvars, k3sVars, setupTask, prepOutcome, setupRet, initLocals,
                   initRet, initOutcome, conns, log, joinVars, sent>>

\* initControlPlane returns r to the caller.
InitReturns(r) ==
    /\ initRet' = r
    /\ ipc' = "returned"
    /\ apc' = "initDone"

\* The upload with its failure caught and passed over.
InitUploadConfigUnchecked ==
    /\ apc = "init" /\ ipc = "uploadContent"
    /\ \E ev \in {"uploaded", "uploadError"} :
         /\ initOutcome' = [initOutcome EXCEPT ![ipc] = UploadContent(ev)]
         /\ conns' = conns \cup {ipc}
         /\ ipc' = "kubeadmInit" /\ UNCHANGED <<apc, initRet>>
    /\ UNCHANGED <<prog, rvars, k3sVars, setupVars, initLocals, log, joinVars, sent>>

\* 1. upload the kubeadm configuration (uploadContent has no retry); a failure
\* lands in the outer catch.
InitUploadConfig ==
    /\ apc = "init" /\ ipc = "uploadContent"
    /\ \E ev \in {"uploaded", "uploadError"} :
         /\ initOutcome' = [initOutcome EXCEPT ![ipc] = UploadContent(ev)]
         /\ conns' = conns \cup {ipc}
         /\ IF UploadContent(ev).threw
            THEN InitReturns(InitFailed(UploadContent(ev).message))
            ELSE ipc' = "kubeadmInit" /\ UNCHANGED <<apc, initRet>>
    /\ UNCHANGED <<prog, rvars, k3sVars, setupVars, initLocals, log, joinVars, sent>>

\* 2. sudo kubeadm init --config=...; a failure returns success: false.
InitKubeadmInit ==
    /\ apc = "init" /\ ipc = "kubeadmInit"
    /\ \E evs \in EventSeqs("withRetry", DefaultRetries) :
         LET fin == ExecSSH(Primary, CmdInit, evs)
         IN  /\ sent' = sent \cup Started(fin, evs)
             /\ initOutcome' = [initOutcome EXCEPT ![ipc] = fin.result]
             /\ conns' = IF Len(fin.hist) >= 1 THEN conns \cup {ipc} ELSE conns
             /\ IF fin.result.threw
                THEN InitReturns(InitFailed(fin.result.message))
                ELSE ipc' = "kubeconfig" /\ UNCHANGED <<apc, initRet>>
    /\ UNCHANGED <<prog, rvars, k3sVars, setupVars, initLocals, log, joinVars>>

\* 3. sudo cat /etc/kubernetes/admin.conf; a failure lands in the outer catch.
InitFetchKubeconfig ==
    /\ apc = "init" /\ ipc = "kubeconfig"
    /\ \E evs \in EventSeqs("withRetry", DefaultRetries) :
         LET fin == ExecSSH(Primary, CmdKubeconfig, evs)
         IN  /\ sent' = sent \cup Started(fin, evs)
             /\ initOutcome' = [initOutcome EXCEPT ![ipc] = fin.result]
             /\ conns' = IF Len(fin.hist) >= 1 THEN conns \cup {ipc} ELSE conns
             /\ IF fin.result.threw
                THEN InitReturns(InitFailed(fin.result.message))
                     /\ UNCHANGED initLocals
                ELSE /\ ipc' = "token"
                     /\ initLocals' = [initLocals EXCEPT !.kubeconfig = fin.result.value]
                     /\ UNCHANGED <<apc, initRet>>
    /\ UNCHANGED <<prog, rvars, k3sVars, setupVars, log, joinVars>>

\* 4. sudo kubeadm token create --print-join-command; a failure returns
\* success: true with the kubeconfig and an error text.
InitCreateToken ==
    /\ apc = "init" /\ ipc = "token"
    /\ \E evs \in EventSeqs("withRetry", DefaultRetries) :
         LET fin == ExecSSH(Primary, CmdToken, evs)
         IN  /\ sent' = sent \cup Started(fin, evs)
             /\ initOutcome' = [initOutcome EXCEPT ![ipc] = fin.result]
             /\ conns' = IF Len(fin.hist) >= 1 THEN conns \cup {ipc} ELSE conns
             /\ IF fin.result.threw
                THEN InitReturns(JoinCommandFailed(initLocals.kubeconfig,
                                                   fin.result.message))
                     /\ UNCHANGED initLocals
                ELSE /\ ipc' = "uploadCerts"
                     /\ initLocals' = [initLocals EXCEPT !.joinCommand = fin.result.value]
                     /\ UNCHANGED <<apc, initRet>>
    /\ UNCHANGED <<prog, rvars, k3sVars, setupVars, log, joinVars>>

\* 5. upload the certificates and read the key from the last output line; a
\* failure is only warned about on the console.  Then the final return.
InitUploadCerts ==
    /\ apc = "init" /\ ipc = "uploadCerts"
    /\ \E evs \in EventSeqs("withRetry", DefaultRetries) :
         LET fin == ExecSSH(Primary, CmdCert, evs)
         IN  /\ sent' = sent \cup Started(fin, evs)
             /\ initOutcome' = [initOutcome EXCEPT ![ipc] = fin.result]
             /\ conns' = IF Len(fin.hist) >= 1 THEN conns \cup {ipc} ELSE conns
             /\ IF fin.result.threw
                THEN /\ log' = log \cup {CertWarning(fin.result.message)}
                     /\ InitReturns(InitSucceeded(initLocals.kubeconfig,
                                                  initLocals.joinCommand, None))
                ELSE /\ log' = log
                     /\ InitReturns(InitSucceeded(
                            initLocals.kubeconfig, initLocals.joinCommand,
                            ControlPlaneJoinCommand(initLocals.joinCommand,
                                                    fin.result.value)))
    /\ UNCHANGED <<prog, rvars, k3sVars, setupVars, initLocals, joinVars>>

\* --- program "join": joinCluster
\* The join command initControlPlane returned for a group.
GroupCommand(g) ==
    IF g = "controlPlane" THEN initRet.controlPlaneJoinCommand ELSE initRet.joinCommand

\* The caller calls joinCluster(hosts of group g, the group's join command);
\* the calls of the two groups may overlap.
CallJoinCluster(g) ==
    /\ prog = "join"
    /\ apc = "initDone"
    /\ joinRet[g].state = "none"
    /\ joinArg' = [joinArg EXCEPT ![g] = GroupCommand(g)]
    /\ joinTask' = [h \in Joiners |-> IF h \in GroupHosts(g) THEN Pending ELSE joinTask[h]]
    /\ joinRet' = [joinRet EXCEPT ![g] = [state |-> "pending", value |-> <<>>]]
    /\ UNCHANGED <<prog, rvars, k3sVars, apc, setupVars, initVars, log, joinOutcome, sent>>

\* Host h's function runs: rewrite the command, execSSH it, make the result.
JoinSettle(h) ==
    /\ prog = "join"
    /\ joinTask[h].state = "pending"
    /\ LET arg == joinArg[GroupOf(h)]
       IN  IF ~arg.present
           THEN /\ joinTask' = [joinTask EXCEPT ![h] = JoinTaskNoCommand(h)]
                /\ UNCHANGED <<joinOutcome, sent>>
           ELSE \E evs \in EventSeqs("withRetry", DefaultRetries) :
                  LET fin == ExecSSH(h, JoinRewrite(arg.text), evs)
                  IN  /\ joinTask' = [joinTask EXCEPT ![h] = JoinTask(h, fin)]
                      /\ joinOutcome' = [joinOutcome EXCEPT ![h] = fin.result]
                      /\ sent' = sent \cup Started(fin, evs)
    /\ UNCHANGED <<prog, rvars, k3sVars, apc, setupVars, initVars, log, joinArg, joinRet>>

\* await Promise.all(promises) of group g settles and joinCluster returns.
JoinReturn(g) ==
    /\ prog = "join"
    /\ joinRet[g].state = "pending"
    /\ PromiseAll(joinTask, Ordered(GroupHosts(g))).state # "pending"
    /\ joinRet' = [joinRet EXCEPT ![g] = PromiseAll(joinTask, Ordered(GroupHosts(g)))]
    /\ UNCHANGED <<prog, rvars, k3sVars, apc, setupVars, initVars, log, joinArg, joinTask,
                   joinOutcome, sent>>

\* --- program "k3s": main of the example, from step 5 on
\* await initK3s(...) on the first master; throw if it did not succeed,
\* otherwise start joinK3sMaster on every other master.
K3sInit ==
    /\ prog \in K3sPrograms
    /\ apc = "start"
    /\ \E evs \in EventSeqs("script", K3sRetries) :
         LET fin == RunLoop(EnterLoop("script", K3sRetries, FirstMaster, CmdK3sInit), evs)
         IN  /\ sent' = sent \cup Started(fin, evs)
             /\ IF ~fin.result.success
                THEN /\ apc' = "failed"
                     /\ thrown' = Some(<<"k3s-init-failed:">> \o fin.result.message)
                     /\ UNCHANGED k3sTask
                ELSE /\ apc' = "joining"
                     /\ k3sTask' = [h \in OtherMasters |-> Pending]
                     /\ UNCHANGED thrown
    /\ UNCHANGED <<prog, rvars, setupVars, initVars, joinVars, nodesResult, waited, log>>

\* The join function of master h: await joinK3sMaster(...), return its result.
K3sJoinSettle(h) ==
    /\ prog \in K3sPrograms
    /\ k3sTask[h].state = "pending"
    /\ \E evs \in EventSeqs("script", K3sRetries) :
         LET fin == RunLoop(EnterLoop("script", K3sRetries, h, CmdK3sJoin), evs)
         IN  /\ sent' = sent \cup Started(fin, evs)
             /\ k3sTask' = [k3sTask EXCEPT ![h] = K3sJoinResult(h, fin.result)]
    /\ UNCHANGED <<prog, rvars, apc, setupVars, initVars, joinVars, thrown, nodesResult,
                   waited, log>>

\* await Promise.all(joinPromises) settles; throw if any join failed.  The
\* earlier main then awaits a timer before it goes on to step 6.
K3sJoinsDone ==
    /\ prog \in K3sPrograms
    /\ apc = "joining"
    /\ PromiseAll(k3sTask, Ordered(OtherMasters)).state = "fulfilled"
    /\ IF FailedJoins(k3sTask) # {}
       THEN /\ apc' = "failed"
            /\ thrown' = Some(NumStr(Cardinality(FailedJoins(k3sTask)))
                              \o <<"masters-failed-to-join">>)
       ELSE /\ apc' = IF SettleWait(prog) > 0 THEN "settling" ELSE "verify"
            /\ UNCHANGED thrown
    /\ UNCHANGED <<prog, rvars, setupVars, initVars, joinVars, k3sTask, nodesResult, waited,
                   sent, log>>

\* await new Promise(resolve => setTimeout(resolve, 30000)) of the earlier main.
K3sSettle ==
    /\ prog \in K3sPrograms
    /\ apc = "settling"
    /\ waited' = waited + SettleWait(prog)
    /\ apc' = "verify"
    /\ UNCHANGED <<prog, rvars, setupVars, initVars, joinVars, k3sTask, thrown, nodesResult,
                   sent, log>>

\* Step 6: ssh.exec of the node listing on the first master, the count check,
\* and the closing lines of main.
K3sVerify ==
    /\ prog \in K3sPrograms
    /\ apc = "verify"
    /\ \E evs \in EventSeqs("executeWithRetry", ExecDefaultRetries), out \in NodesOutputs :
         LET fin == RunLoop(EnterLoop("executeWithRetry", ExecDefaultRetries, FirstMaster,
                                      CmdGetNodes), evs)
             res == IF fin.result.success THEN [fin.result EXCEPT !.stdout = out]
                    ELSE fin.result
             step6 == IF prog = "k3sOld" THEN VerificationOld(res) ELSE Verification(res)
         IN  /\ sent' = sent \cup Started(fin, evs)
             /\ nodesResult' = res
             /\ log' = log \cup step6.warns
             /\ thrown' = step6.thrown
             /\ apc' = IF step6.thrown.present THEN "failed" ELSE "complete"
    /\ UNCHANGED <<prog, rvars, setupVars, initVars, joinVars, k3sTask, waited>>

Init ==
    /\ prog \in Programs
    /\ rt = RetryIdle
    /\ rtEvs = <<>>
    /\ cc = ConfigIdle
    /\ dp = [now |-> 0, flights |-> {}]
    /\ ob = ObserveIdle
    /\ ss = SessionIdle
    /\ jk = JoinMasterIdle
    /\ rw \in [in : IF prog = "rewrite" THEN Texts(MaxFragments) ELSE {<<>>},
               out : {<<>>}, done : {FALSE}]
    /\ apc = "start"
    /\ setupTask = [h \in Hosts |-> Idle]
    /\ prepOutcome = [h \in Hosts |-> NoOutcome]
    /\ setupRet = [state |-> "none", value |-> <<>>]
    /\ settled = <<>>
    /\ ipc = "idle"
    /\ initLocals = [kubeconfig |-> <<>>, joinCommand |-> <<>>]
    /\ initRet = NoInitResult
    /\ initOutcome = [st \in InitSteps |-> NoOutcome]
    /\ conns = {}
    /\ joinArg = [g \in Groups |-> None]
    /\ joinTask = [h \in Joiners |-> Idle]
    /\ joinOutcome = [h \in Joiners |-> NoOutcome]
    /\ joinRet = [g \in Groups |-> [state |-> "none", value |-> <<>>]]
    /\ k3sTask = [h \in OtherMasters |-> Idle]
    /\ thrown = None
    /\ nodesResult = NoExecutionResult
    /\ waited = 0
    /\ sent = {}
    /\ log = {}

Next ==
    \/ RetryCall
    \/ RetryAttempt
    \/ RetryDelayDone
    \/ RetryExhaust
    \/ Rewrite
    \/ BuildConfigCall
    \/ ClockTick
    \/ DeployStart
    \/ DeployRetry
    \/ DeployEnd
    \/ Observe
    \/ SessionConnect
    \/ SessionConnectError
    \/ SessionReady
    \/ SessionExec
    \/ SessionReadScriptThrows
    \/ SessionData
    \/ SessionTimeout
    \/ SessionStreamClose
    \/ SessionCleanupDone
    \/ JoinK3sMaster
    \/ CallSetupNodes
    \/ \E h \in Hosts : SetupSettle(h)
    \/ SetupReturn
    \/ CallInitControlPlane
    \/ InitUploadConfig
    \/ InitKubeadmInit
    \/ InitFetchKubeconfig
    \/ InitCreateToken
    \/ InitUploadCerts
    \/ \E g \in Groups : CallJoinCluster(g)
    \/ \E h \in Joiners : JoinSettle(h)
    \/ \E g \in Groups : JoinReturn(g)
    \/ K3sInit
    \/ \E h \in OtherMasters : K3sJoinSettle(h)
    \/ K3sJoinsDone
    \/ K3sSettle
    \/ K3sVerify

Spec == Init /\ [][Next]_vars

\* The fairness the event loop and the transport give an attempt: a pending
\* connection reports ready or an error, a ready connection calls back, an
\* armed timer fires unless it is cleared, and a callback that was handed over
\* is called.  A running command need not ever end.
Fairness ==
    /\ WF_vars(SessionReady \/ SessionConnectError)
    /\ WF_vars(SessionExec \/ SessionReadScriptThrows)
    /\ WF_vars(SessionTimeout)
    /\ WF_vars(SessionCleanupDone)

LiveSpec == Spec /\ Fairness

\* ------------------------------------------------------------- claims
\* Every attempt the operation has made so far failed.
AllAttemptsFailed == \A i \in 1..Len(rt.hist) : ~AttemptOk(rt.variant, rt.hist[i])

\* text names the count n and, after it, the failure message last.
RecordsCountThenError(text, n, last) ==
    \E i \in 1..Len(text) :
        /\ SubSeq(text, i, i + Len(NumStr(n)) - 1) = NumStr(n)
        /\ Contains(SubSeq(text, i + Len(NumStr(n)), Len(text)), last)

\* C1: with maxAttempts = N >= 1 and an operation that fails on every attempt,
\* each retry executor runs the operation exactly N times and then gives a
\* failed outcome whose message holds N and the message of the N-th failure.
C1_ExhaustedAfterN ==
    (prog = "retry" /\ rt.pc = "done" /\ rt.retries >= 1 /\ AllAttemptsFailed)
    => /\ Len(rt.hist) = rt.retries
       /\ ~AttemptOk(rt.variant, rt.result)
       /\ RecordsCountThenError(rt.result.message, rt.retries,
                                rt.hist[rt.retries].message)

\* Three attempts failed, the last one differently from the first.
C1_Witness ==
    /\ prog = "retry" /\ rt.pc = "done" /\ rt.retries = 3
    /\ Len(rt.hist) = 3 /\ AllAttemptsFailed
    /\ rt.hist[1].message # rt.hist[3].message

\* C2: an operation that fails on attempts 1..k-1 and succeeds on attempt k
\* (k <= N) makes the executor return exactly attempt k's result, and no
\* attempt k+1 is ever made.
C2_ReturnsFirstSuccess ==
    \A k \in 1..Len(rt.hist) :
        (prog = "retry" /\ AttemptOk(rt.variant, rt.hist[k]))
        => /\ k <= rt.retries
           /\ Len(rt.hist) = k
           /\ rt.pc = "done"
           /\ rt.result = rt.hist[k]

\* The second of three allowed attempts succeeded after a failed first one.
C2_Witness ==
    /\ prog = "retry" /\ rt.pc = "done" /\ rt.retries = 3
    /\ Len(rt.hist) = 2
    /\ ~AttemptOk(rt.variant, rt.hist[1])
    /\ AttemptOk(rt.variant, rt.hist[2])


\* ------------------------------------------------------------- C3
KubeadmProgram == prog \in {"bootstrap", "join"}
FailedPrep == {h \in Hosts : prepOutcome[h].threw}
InitCommandSent == \E e \in sent : e.command = CmdInit

CertStepFailed == KubeadmProgram /\ initOutcome["uploadCerts"].threw

IsKubeadmJoin(cmd) ==
    Len(cmd) >= 3 /\ SubSeq(cmd, 1, 3) = <<"kubeadm", " ", "join">>

\* "sudo kubeadm join --cri-socket=<constant>" followed by what followed
\* "kubeadm join" in cmd.
SudoJoinWithSocket(cmd) ==
    <<"sudo", " ", "kubeadm", " ", "join", " ", "--cri-socket=/run/cri-dockerd.sock">>
    \o SubSeq(cmd, 4, Len(cmd))

\* C5: a join command "kubeadm join <rest>" is rewritten to exactly
\* "sudo kubeadm join --cri-socket=<constant> <rest>", and every command
\* joinCluster sends to a host is the rewrite of the join command it was given.
C5_JoinRewriteExact ==
    /\ (prog = "rewrite" /\ rw.done /\ IsKubeadmJoin(rw.in))
       => rw.out = SudoJoinWithSocket(rw.in)
    /\ prog = "join"
       => \A e \in sent :
            e.host \in Joiners
            => LET arg == joinArg[GroupOf(e.host)]
               IN  /\ arg.present
                   /\ IsKubeadmJoin(arg.text)
                   /\ e.command = SudoJoinWithSocket(arg.text)

\* The example command has been rewritten.
C5_Witness ==
    /\ prog = "rewrite" /\ rw.done
    /\ rw.in = <<"kubeadm", " ", "join", " ", "10.0.0.1:6443", " ", "--token", " ", "abc">>
    /\ rw.out = <<"sudo", " ", "kubeadm", " ", "join", " ",
                  "--cri-socket=/run/cri-dockerd.sock", " ", "10.0.0.1:6443", " ",
                  "--token", " ", "abc">>

\* ------------------------------------------------------------- C6
JoinSettled(h) == joinTask[h].state \in {"fulfilled", "rejected"}
GroupReturned(g) == joinRet[g].state \in {"fulfilled", "rejected"}
GroupAllFailed(g) ==
    GroupHosts(g) # {} /\ \A h \in GroupHosts(g) : JoinSettled(h) /\ joinOutcome[h].threw
GroupAllSucceeded(g) ==
    GroupHosts(g) # {}
    /\ \A h \in GroupHosts(g) :
         joinTask[h].state = "fulfilled" /\ joinArg[g].present /\ ~joinOutcome[h].threw

\* The results joinCluster returned for group g, as a set.
Returned(g) == {joinRet[g].value[i] : i \in 1..Len(joinRet[g].value)}

\* What holds of the join phase in every state.
C6_State ==
    /\ prog = "join"
       => /\ \A h \in Joiners :
               /\ joinTask[h].state # "rejected"
               /\ (joinTask[h].state = "fulfilled" /\ joinArg[GroupOf(h)].present)
                  => /\ joinTask[h].value.host = h
                     /\ joinTask[h].value.success <=> ~joinOutcome[h].threw
          /\ \A g \in Groups :
               GroupReturned(g)
               => /\ joinRet[g].state = "fulfilled"
                  /\ \A h \in GroupHosts(g) : joinTask[h].value \in Returned(g)
          /\ (GroupReturned("controlPlane") /\ GroupReturned("worker")
              /\ GroupAllFailed("controlPlane") /\ GroupAllSucceeded("worker"))
             => /\ \A r \in Returned("controlPlane") : ~r.success /\ r.error.present
                /\ Returned("controlPlane") # {}
                /\ \A h \in GroupHosts("worker") :
                     \E r \in Returned("worker") : r.host = h /\ r.success
    /\ (prog = "k3s" /\ apc \notin {"start", "joining"} /\ k3sTask[2].state # "idle")
       => /\ \A h \in OtherMasters : k3sTask[h].state = "fulfilled"
          /\ FailedJoins(k3sTask) # {} => apc = "failed" /\ thrown.present

\* One host's join step leaves every other host's task and outcome alone, and
\* a settled result never changes.
C6_Step ==
    \A h \in Joiners :
        (joinTask'[h] # joinTask[h] /\ joinTask[h].state = "pending")
        => \A o \in Joiners \ {h} :
             joinTask'[o] = joinTask[o] /\ joinOutcome'[o] = joinOutcome[o]

C7_MismatchWarnsOnly ==
    \A n \in 0..MaxNodes :
        (prog = "k3s" /\ nodesResult.success /\ nodesResult.stdout = NodesTable(n)
         /\ n # MASTER_COUNT)
        => /\ apc = "complete"
           /\ ~thrown.present
           /\ \E w \in log : /\ Contains(w, NumStr(MASTER_COUNT))
                             /\ Contains(w, NumStr(n))
                             /\ w = <<"node-count-unexpected:expected">>
                                    \o NumStr(MASTER_COUNT) \o <<",actual">> \o NumStr(n)

\* Three nodes were expected and the listing showed two.
C7_Witness ==
    /\ prog = "k3s" /\ apc = "complete"
    /\ nodesResult.success /\ nodesResult.stdout = NodesTable(2)
    /\ log # {}


\* ------------------------------------------------------------- C8
SetupSettled(h) == setupTask[h].state \in {"fulfilled", "rejected"}

\* C8: setupNodes returns, and anything after it starts, only once every
\* host's setup has settled; a failed host becomes a failed result and never
\* makes setupNodes throw or return while other hosts are still running.
C8_PreparationBarrier ==
    prog = "bootstrap"
    => /\ \A h \in Hosts : setupTask[h].state # "rejected"
       /\ setupRet.state # "rejected"
       /\ (setupRet.state # "none" \/ apc \notin {"start", "setup"}
           \/ \E e \in sent : e.command # CmdSetup)
          => \A h \in Hosts :
               /\ setupTask[h].state = "fulfilled"
               /\ setupTask[h].value.success <=> ~prepOutcome[h].threw

\* setupNodes has returned although the first host's connection failed on
\* every attempt and another host's script exited non-zero.
C8_Witness ==
    /\ prog = "bootstrap" /\ setupRet.state = "fulfilled"
    /\ \E h \in Hosts : /\ prepOutcome[h].threw
                        /\ Contains(prepOutcome[h].message, <<"econn">>)
    /\ \E h \in Hosts : /\ prepOutcome[h].threw
                        /\ Contains(prepOutcome[h].message, <<"command-failed-exit-code">>)
    /\ \E h \in Hosts : ~prepOutcome[h].threw /\ setupTask[h].value.success

\* ------------------------------------------------------------- C9
InitStepFailed == KubeadmProgram /\ initOutcome["kubeadmInit"].threw
K3sInitFailed == prog = "k3s" /\ apc = "failed" /\ k3sTask[2].state = "idle"

\* C9: when the init command on the primary finally fails, the init result
\* has success = false with the error, no kubeconfig and no join command, and
\* no later command is ever sent: no kubeconfig fetch, token, certificate
\* upload, join or verification.  main of the example fails at that point.
C9_InitFailureFatal ==
    /\ InitStepFailed
       => /\ ipc = "returned"
          /\ ~initRet.success
          /\ initRet.error = Some(initOutcome["kubeadmInit"].message)
          /\ initRet.error.text # <<>>
          /\ ~initRet.kubeconfig.present
          /\ ~initRet.joinCommand.present
          /\ ~initRet.controlPlaneJoinCommand.present
          /\ \A e \in sent : e.command \in {CmdSetup, CmdInit}
          /\ \A h \in Joiners : joinTask[h].state = "fulfilled" => ~joinTask[h].value.success
    /\ K3sInitFailed
       => /\ thrown.present
          /\ sent \subseteq {[host |-> FirstMaster, command |-> CmdK3sInit]}
          /\ \A h \in OtherMasters : k3sTask[h].state = "idle"

\* The init command failed on every attempt, and the caller went on to call
\* joinCluster with the join command the result does not have.
C9_Witness ==
    /\ prog = "join" /\ InitStepFailed
    /\ [host |-> Primary, command |-> CmdInit] \in sent
    /\ \E h \in Joiners : joinTask[h].state = "fulfilled"

\* ------------------------------------------------------------- C10
TokenStepFailed == KubeadmProgram /\ initOutcome["token"].threw

\* C10: when init and the kubeconfig fetch succeed and the token command
\* finally fails, the init result has success = true, the kubeconfig, no
\* worker and no control-plane join command, and a warning text that carries
\* the failure.
C10_TokenFailureNonFatal ==
    TokenStepFailed
    => /\ ipc = "returned"
       /\ initRet.success
       /\ initRet.kubeconfig = Some(initOutcome["kubeconfig"].value)
       /\ initRet.kubeconfig.text # <<>>
       /\ ~initRet.joinCommand.present
       /\ ~initRet.controlPlaneJoinCommand.present
       /\ initRet.error.present
       /\ Contains(initRet.error.text, initOutcome["token"].message)
       /\ \A e \in sent : e.command # CmdCert

\* The token command was started and failed after init and kubeconfig succeeded.
C10_Witness ==
    /\ TokenStepFailed
    /\ ~initOutcome["kubeadmInit"].threw
    /\ ~initOutcome["kubeconfig"].threw
    /\ [host |-> Primary, command |-> CmdToken] \in sent
    /\ ipc = "returned"


\* ------------------------------------------------------------- C11
KubeconfigStepFailed ==
    KubeadmProgram /\ initOutcome["kubeconfig"].threw /\ ~initOutcome["kubeadmInit"].threw

\* C11: when the init command succeeds and the kubeconfig fetch finally
\* fails, the init result still has success = true, with the kubeconfig
\* absent and a diagnostic text.
C11_KubeconfigFailureNonFatal ==
    KubeconfigStepFailed
    => /\ initRet.success
       /\ ~initRet.kubeconfig.present
       /\ initRet.error.present

\* ------------------------------------------------------------- C12
\* How far main has come.
K3sRank(pc) ==
    CASE pc = "start" -> 0
      [] pc = "joining" -> 1
      [] pc = "verify" -> 2
      [] OTHER -> 3

SomeJoinFailed ==
    \E h \in OtherMasters : k3sTask[h].state = "fulfilled" /\ ~k3sTask[h].value.success

C12_Step ==
    (prog = "k3s" /\ apc' # apc)
    => /\ K3sRank(apc') > K3sRank(apc)
       /\ apc \notin {"failed", "complete"}
       /\ apc' = "failed" => apc \in {"start", "joining"}
       /\ apc = "start" => apc' \in {"joining", "failed"}
       /\ apc = "joining" => /\ apc' \in {"verify", "failed"}
                             /\ apc' = "failed" <=> SomeJoinFailed
       /\ apc = "verify" => apc' = "complete"

JoinCommandSent == \E e \in sent : e.host \in Joiners
JoinArtifactRead == \E g \in Groups : joinRet[g].state # "none"
VerificationSent == [host |-> FirstMaster, command |-> CmdGetNodes] \in sent

\* C13: phases are barriers.  kubeadm init is sent only after every host's
\* setup has settled; a join command is sent, and a join command of the init
\* result is read, only after initControlPlane (initK3s in main) has returned;
\* the verification query is sent only after every join has settled.
C13_PhaseBarriers ==
    /\ (prog = "bootstrap" /\ (InitCommandSent \/ ipc # "idle"))
       => \A h \in Hosts : setupTask[h].state = "fulfilled"
    /\ (prog = "join" /\ (JoinCommandSent \/ JoinArtifactRead))
       => /\ ipc = "returned"
          /\ \A g \in Groups : joinRet[g].state # "none" => joinArg[g] = GroupCommand(g)
    /\ (prog = "k3s" /\ \E h \in OtherMasters : k3sTask[h].state # "idle")
       => /\ apc # "start"
          /\ [host |-> FirstMaster, command |-> CmdK3sInit] \in sent
    /\ (prog = "k3s" /\ (VerificationSent \/ apc \in {"verify", "complete"}))
       => \A h \in OtherMasters : k3sTask[h].state = "fulfilled"

\* main sent the verification query after both joins had settled.
C13_Witness ==
    /\ prog = "k3s" /\ VerificationSent
    /\ \A h \in OtherMasters : [host |-> h, command |-> CmdK3sJoin] \in sent


\* ------------------------------------------------------------- C14
SSHClientVariants == {"executeWithRetry", "script"}
\* The attempt's command was started (or could not be) and failed.
CommandFailureEvents == {"close1", "execError", "streamError", "timeout"}
RetryFinishedFailed == prog = "retry" /\ rt.pc = "done" /\ rt.retries >= 1 /\ AllAttemptsFailed

C15_TimeoutTagged ==
    (prog = "retry" /\ rt.variant \in SSHClientVariants)
    => \A k \in 1..Len(rtEvs) :
         rtEvs[k] = "timeout"
         => /\ ~rt.hist[k].success
            /\ rt.hist[k].message = <<"command-timeout">>
            /\ rt.hist[k].stderr = <<"Command timeout">>
            /\ rt.hist[k].message # AttemptResult(rt.variant, rt.command, "close1").message
            /\ Effects(rt.variant, "timeout").ended = Effects(rt.variant, "timeout").opened
            /\ Effects(rt.variant, "timeout").ended >= 1
            /\ k <= rt.retries
            /\ Len(rt.hist) = k
               => /\ k < rt.retries => rt.pc \in {"delay", "loop"}
                  /\ rt.pc = "done" => k = rt.retries /\ ~rt.result.success

\* The second of three attempts timed out and a third one was made.
C15_Witness ==
    /\ prog = "retry" /\ rt.variant = "executeWithRetry" /\ rt.retries = 3
    /\ Len(rtEvs) = 3 /\ rtEvs[2] = "timeout"


\* ------------------------------------------------------------- C16
UploadVariants == {"script", "uploadAndExecScript"}

\* C16 (as stated): every attempt of an upload-and-run operation that
\* uploaded the script issues the delete of the remote path, whatever the
\* outcome of the run.
C16_CleanupAlways ==
    (prog = "retry" /\ rt.variant \in UploadVariants)
    => \A k \in 1..Len(rtEvs) :
         Effects(rt.variant, rtEvs[k]).uploaded
         => Effects(rt.variant, rtEvs[k]).cleanup

\* ------------------------------------------------------------- C17
\* C17 (as stated): every attempt that opened a connection has requested its
\* close by the time it settles, so none is open when the operation returns.
C17_NoConnectionLeak ==
    prog = "retry"
    => \A k \in 1..Len(rtEvs) :
         Effects(rt.variant, rtEvs[k]).ended = Effects(rt.variant, rtEvs[k]).opened


\* ------------------------------------------------------------- C18
\* C18 (as stated): every function that builds a connection configuration
\* uses the key material if supplied, otherwise the key file if supplied,
\* otherwise the password, and exactly one of them.
C18_KeyThenPathThenPassword ==
    (prog = "config" /\ cc.done /\ cc.config.built)
    => /\ Truthy(cc.auth.sshPubKey)
          => /\ cc.config.privateKey = Some(cc.auth.sshPubKey.text)
             /\ cc.config.password = None
       /\ (~Truthy(cc.auth.sshPubKey) /\ Truthy(cc.auth.sshPubKeyPath))
          => /\ cc.config.privateKey = Some(FileContent(cc.auth.sshPubKeyPath.text))
             /\ cc.config.password = None
       /\ (~Truthy(cc.auth.sshPubKey) /\ ~Truthy(cc.auth.sshPubKeyPath)
             /\ Truthy(cc.auth.sshPasswd))
          => /\ cc.config.password = Some(cc.auth.sshPasswd.text)
             /\ cc.config.privateKey = None
       /\ cc.config.privateKey.present # cc.config.password.present


FailureCauses ==
    {"authRejected", "noCredential", "connectTimeout", "uploadError", "close1", "timeout"}
RetryLayers == {"executeWithRetry", "script", "withRetry", "uploadAndExecScript"}

\* C20: in SSHClient.executeWithRetry and in withRetry a failed attempt of
\* any cause is one iteration of the loop: it is recorded as the only attempt
\* of its iteration, the loop never returns on it while attempts remain, and
\* the next attempt follows after the delay; the operation ends in failure
\* only when all `retries` attempts have been made.
C20_NoFastFail ==
    (prog = "retry" /\ rt.variant \in RetryLayers)
    => /\ Len(rt.hist) = Len(rtEvs)
       /\ rt.pc = "loop" => rt.attempt = Len(rt.hist) + 1
       /\ rt.pc = "delay" => rt.attempt = Len(rt.hist) /\ rt.attempt < rt.retries
       /\ \A k \in 1..Len(rtEvs) :
            rtEvs[k] \in FailureCauses
            => /\ ~AttemptOk(rt.variant, rt.hist[k])
               /\ k <= rt.retries
               /\ (Len(rt.hist) = k /\ k < rt.retries) => rt.pc \in {"delay", "loop"}
               /\ (Len(rt.hist) = k /\ rt.pc = "done") => k = rt.retries

\* Three attempts of different causes were made one after the other, by
\* SSHClient.script or by withRetry.
C20_Witness ==
    /\ prog = "retry" /\ rt.retries = 3 /\ rt.pc = "loop"
    /\ \/ /\ rt.variant = "script"
          /\ rtEvs = <<"authRejected", "uploadError", "timeout">>
       \/ /\ rt.variant = "withRetry"
          /\ rtEvs = <<"noCredential", "connectTimeout", "close1">>


\* ------------------------------------------------------------- C21
\* The i-th host of the list the caller passes.
InputHost(list, i) == Ordered(list)[i]

C22_NoPathCollision ==
    prog = "deploy"
    => \A f \in dp.flights, g \in dp.flights :
         (f.id # g.id /\ f.host = g.host) => f.path # g.path


\* ------------------------------------------------------------- C23
\* The nodes main expects: the first master and every master that joined.
ExpectedNodes == Cardinality({FirstMaster} \cup OtherMasters)

\* C23 (as stated): the node listing is asked for only once main has waited
\* the whole settling delay after the joins settled, and a listing with a
\* number of nodes other than the expected one is reported.
C23_VerifyAfterSettleDelay ==
    (prog \in K3sPrograms /\ [host |-> FirstMaster, command |-> CmdGetNodes] \in sent)
    => /\ waited >= SettleDelay
       /\ (nodesResult.success /\ nodesResult.stdout # <<>>
             /\ NodeCount(nodesResult.stdout) # ExpectedNodes)
          => MismatchWarning(ExpectedNodes, NodeCount(nodesResult.stdout)) \in log


\* ------------------------------------------------------------- C24
\* The texts an observation holds: its console lines and its message.
ShownTexts(shown) == {shown.logs[i] : i \in 1..Len(shown.logs)} \cup {shown.message}

\* C24: what an attempt writes to the console and what its result or error
\* says does not depend on the key material, the passphrase or the password:
\* two attempts that differ only in these show the same lines and message,
\* and none of them holds a secret's value.
C24_SecretsNotShown ==
    (prog = "observe" /\ ob.done)
    => /\ ob.shownA = ob.shownB
       /\ \A t \in ShownTexts(ob.shownA) \cup ShownTexts(ob.shownB), x \in Secrets :
            ~Contains(t, x)

\* execSSHInternal was refused by the host under two different passwords and
\* wrote its lines.
C24_Witness ==
    /\ prog = "observe" /\ ob.done /\ ob.fn = "execSSHInternal"
    /\ ob.ev = "authRejected"
    /\ ob.authA.sshPasswd.present /\ ob.authA.sshPasswd # ob.authB.sshPasswd
    /\ Len(ob.shownA.logs) >= 2


\* ------------------------------------------------------------- C25
\* C25 (as stated): once a connection is closed nothing more is asked of it,
\* or else the call is answered with a resource error that the attempt
\* reports.
C25_ClosedIsTerminal ==
    prog = "session"
    => (ss.lateCall = "none" \/ ss.result = "resource-error")


\* ------------------------------------------------------------- C26
\* C26: the sub-steps of initControlPlane on the primary all run on one
\* connection, opened once before the first of them: no second sub-step
\* connects to the primary.
C26_OneSessionForInit ==
    KubeadmProgram => Cardinality(conns) <= 1

\* ------------------------------------------------------------- C27
\* The command each step of initControlPlane sends to the primary.
SentToPrimary(command) == [host |-> Primary, command |-> command] \in sent

\* The step ran and ended without an error.
StepSucceeded(st) == st \in conns /\ ~initOutcome[st].threw

\* C27: the steps of initControlPlane are strictly sequential: kubeadm init
\* is sent only after the configuration upload succeeded, and a failed upload
\* returns success = false without kubeadm init ever sent; the kubeconfig is
\* read only after kubeadm init succeeded, the token command sent only after
\* the kubeconfig was read, the certificate upload only after the token
\* command succeeded; a step connects only after the one before it did.
C27_StepsSequential ==
    KubeadmProgram
    => /\ SentToPrimary(CmdInit) => StepSucceeded("uploadContent")
       /\ initOutcome["uploadContent"].threw
          => /\ ipc = "returned" /\ ~initRet.success
             /\ ~SentToPrimary(CmdInit)
             /\ conns = {"uploadContent"}
       /\ SentToPrimary(CmdKubeconfig) => StepSucceeded("kubeadmInit")
       /\ SentToPrimary(CmdToken) => StepSucceeded("kubeconfig")
       /\ SentToPrimary(CmdCert) => StepSucceeded("token")
       /\ "kubeadmInit" \in conns => StepSucceeded("uploadContent")
       /\ "kubeconfig" \in conns => StepSucceeded("kubeadmInit")
       /\ "token" \in conns => StepSucceeded("kubeconfig")
       /\ "uploadCerts" \in conns => StepSucceeded("token")
       /\ ipc \in InitSteps => ipc \notin conns

\* initControlPlane went through all five steps: every command was sent, each
\* after the step before it had succeeded.
C27_Witness ==
    /\ KubeadmProgram /\ ipc = "returned" /\ initRet.success
    /\ conns = InitSteps
    /\ SentToPrimary(CmdInit) /\ SentToPrimary(CmdKubeconfig)
    /\ SentToPrimary(CmdToken) /\ SentToPrimary(CmdCert)

\* ------------------------------------------------------------- C28
\* The two fixed flags between the worker join command and the key.
ControlPlaneFlags == <<" ", "--control-plane", " ", "--certificate-key", " ">>

\* C28: initControlPlane returns a control-plane join command only when the
\* token command succeeded and the certificate upload returned a key that is
\* not empty; the command is then the worker join command, the two fixed
\* flags and the key; the result that holds it holds the worker join command
\* too, of which it is an extension.
C28_ControlPlaneJoinExtendsWorkerJoin ==
    (KubeadmProgram /\ initRet.controlPlaneJoinCommand.present)
    => LET cp  == initRet.controlPlaneJoinCommand.text
           key == Trim(initOutcome["uploadCerts"].value)
       IN  /\ StepSucceeded("token") /\ StepSucceeded("uploadCerts")
           /\ key # <<>>
           /\ initRet.joinCommand.present
           /\ initRet.joinCommand.text = initOutcome["token"].value
           /\ cp = initRet.joinCommand.text \o ControlPlaneFlags \o key
           /\ Len(cp) > Len(initRet.joinCommand.text)
           /\ SubSeq(cp, 1, Len(initRet.joinCommand.text)) = initRet.joinCommand.text

\* initControlPlane returned a control-plane join command built from the
\* worker join command and the key the certificate upload printed.
C28_Witness ==
    /\ KubeadmProgram /\ ipc = "returned"
    /\ initRet.controlPlaneJoinCommand.present
    /\ initOutcome["uploadCerts"].value = <<"certkey", "\n">>
    /\ initRet.controlPlaneJoinCommand.text
         = <<"kubeadm", " ", "join", " ", "10.0.0.1:6443", " ", "--token", " ", "abc",
             " ", "--control-plane", " ", "--certificate-key", " ", "certkey">>

\* ------------------------------------------------------------- C29
\* The attempts made and the delays waited so far.
AttemptsMade == Len(rt.hist)
Slept == rt.sleeps

\* C29: the executors wait the inter-attempt delay exactly once between two
\* consecutive attempts and nowhere else: before attempt k there were k - 1
\* waits; a call that succeeded on attempt k waited k - 1 times, a call that
\* used up its N attempts waited N - 1 times; nothing is waited after the
\* attempt that succeeded or after the last one.
C29_OneDelayBetweenAttempts ==
    (prog = "retry" /\ rt.pc # "idle")
    => /\ rt.pc = "delay"
          => /\ AttemptsMade >= 1 /\ AttemptsMade < rt.retries
             /\ Slept = AttemptsMade - 1
             /\ ~AttemptOk(rt.variant, rt.hist[AttemptsMade])
       /\ (rt.pc = "loop" /\ rt.attempt <= rt.retries)
          => /\ Slept = AttemptsMade
             /\ rt.attempt = AttemptsMade + 1
       /\ (rt.pc = "loop" /\ rt.attempt > rt.retries /\ rt.retries >= 1)
          => /\ AttemptsMade = rt.retries
             /\ Slept = rt.retries - 1
       /\ (rt.pc = "done" /\ AttemptsMade >= 1)
          => /\ Slept = AttemptsMade - 1
             /\ AttemptOk(rt.variant, rt.hist[AttemptsMade]) \/ AttemptsMade = rt.retries
       /\ AttemptsMade = 0 => Slept = 0

\* A call with three attempts allowed succeeded on the second: one wait.
C29_Witness ==
    /\ prog = "retry" /\ rt.pc = "done" /\ rt.retries = 3
    /\ AttemptsMade = 2 /\ Slept = 1
    /\ ~AttemptOk(rt.variant, rt.hist[1])
    /\ AttemptOk(rt.variant, rt.hist[2])

\* ------------------------------------------------------------- C30
\* The attempts a call of SSHClient.script or uploadAndExecScript has made.
UploadAttempts ==
    IF prog = "retry" /\ rt.pc # "idle" /\ rt.variant \in UploadVariants
    THEN 1..Len(rtEvs)
    ELSE {}

\* What an attempt reports when its upload failed: the upload's own failure.
UploadFailure(variant, command, ev) ==
    IF variant = "uploadAndExecScript"
    THEN UploadContent(ev)
    ELSE IF ev \in {"uploadError", "sftpError"}
         THEN ExecuteScriptViaSFTP(command, ev)
         ELSE ExecuteCommand(command, ev)

\* C30: upload and run are one unit for the retry.  In every attempt the
\* script is run only if that attempt uploaded it, on a connection the attempt
\* opened itself; an attempt whose upload failed runs nothing and reports the
\* upload's failure; an attempt follows only a failed one, and an attempt
\* succeeds only with its own upload.
C30_UploadAndRunRetriedTogether ==
    /\ UploadAttempts # {} => Len(rt.hist) = Len(rtEvs)
    /\ \A i \in UploadAttempts :
         LET ev  == rtEvs[i]
             eff == Effects(rt.variant, ev)
             res == rt.hist[i]
         IN  /\ CommandStarted(ev) => (eff.uploaded /\ eff.opened >= 1)
             /\ ~eff.uploaded
                => /\ ~CommandStarted(ev)
                   /\ ~AttemptOk(rt.variant, res)
                   /\ res = UploadFailure(rt.variant, rt.command, ev)
             /\ AttemptOk(rt.variant, res) => (eff.uploaded /\ CommandStarted(ev))
             /\ i < Len(rtEvs) => ~AttemptOk(rt.variant, rt.hist[i])

\* uploadAndExecScript with three attempts: the first upload failed, the
\* second attempt uploaded and the script failed, the third uploaded again and
\* the script succeeded.
C30_Witness ==
    /\ prog = "retry" /\ rt.pc = "done" /\ rt.variant = "uploadAndExecScript"
    /\ rt.retries = 3
    /\ rtEvs = <<"uploadError", "close1", "close0a">>
    /\ ~rt.result.threw

\* ------------------------------------------------------------- C31
\* The command starts of the attempts evs[1..n] together.
RECURSIVE TotalRuns(_, _, _, _)
TotalRuns(variant, command, evs, n) ==
    IF n = 0 THEN 0
    ELSE TotalRuns(variant, command, evs, n - 1) + Runs(variant, command, evs[n])

\* C31: a logical operation never makes more attempts than its retry count,
\* and its command is never started more often than that, for the nested
\* uploadAndExecScript too: with maxRetries = N the script is run at most N
\* times in all.
C31_AttemptsBounded ==
    (prog = "retry" /\ rt.pc # "idle")
    => /\ Len(rt.hist) <= rt.retries
       /\ Len(rtEvs) = Len(rt.hist)
       /\ rt.attempt <= rt.retries + 1
       /\ TotalRuns(rt.variant, rt.command, rtEvs, Len(rtEvs)) <= rt.retries

\* uploadAndExecScript with three attempts allowed ran the script three times,
\* once in each attempt, and gave up.
C31_Witness ==
    /\ prog = "retry" /\ rt.pc = "done" /\ rt.variant = "uploadAndExecScript"
    /\ rt.retries = 3
    /\ rtEvs = <<"close1", "close1", "close1">>
    /\ TotalRuns(rt.variant, rt.command, rtEvs, 3) = 3

\* ------------------------------------------------------------- C32
\* C32: what SSHClient.exec and SSHClient.script return is the result of the
\* final attempt: the successful attempt's result, or after the last of N
\* failed attempts that attempt's result with its exit code, stdout and stderr.
C32_FinalAttemptResultRetained ==
    (prog = "retry" /\ rt.pc = "done" /\ rt.variant \in SSHClientVariants
     /\ Len(rt.hist) >= 1)
    => LET last == rt.hist[Len(rt.hist)]
       IN  /\ rt.result.success = last.success
           /\ rt.result.exitCode = last.exitCode
           /\ rt.result.stdout = last.stdout
           /\ rt.result.stderr = last.stderr

\* ------------------------------------------------------------- C33
\* C33: every chunk an attempt hands to onStdout or onStderr is handed over
\* before the attempt's result is delivered: no callback runs for an attempt
\* that has resolved, a timed-out one included.
C33_NoCallbackAfterResult ==
    prog = "session" => ss.lateChunks = 0

\* ------------------------------------------------------------- C34
\* The result an attempt has delivered stays as it is.
ResultKept == (prog = "session" /\ ss.result # "none") => ss'.result = ss.result

\* C34: an attempt delivers one result, decided by the first of the competing
\* events; an event that arrives after it (the stream's close after a timeout)
\* does not change the result, starts no further remote command and raises no
\* error.
C34_LateEventsInert ==
    /\ [][ResultKept]_vars
    /\ [](prog = "session" => ss.lateCall \notin {"thrown", "ignored"})

\* ------------------------------------------------------------- C35
\* initControlPlane is over.
InitOver == KubeadmProgram /\ apc \notin {"start", "setup", "setupDone", "init"}

\* C35: initControlPlane never throws: when it is over it has returned an
\* InitResult, in which success = false comes with an error and without
\* kubeconfig and join commands, a control-plane join command comes with a
\* worker join command, and a worker join command comes with the kubeconfig
\* and success = true.
C35_InitResultWellFormed ==
    /\ (KubeadmProgram /\ ipc = "returned")
       => /\ initRet.success \in BOOLEAN
          /\ ~initRet.success
             => /\ initRet.error.present
                /\ ~initRet.kubeconfig.present
                /\ ~initRet.joinCommand.present
                /\ ~initRet.controlPlaneJoinCommand.present
          /\ initRet.controlPlaneJoinCommand.present => initRet.joinCommand.present
          /\ initRet.joinCommand.present
             => (initRet.kubeconfig.present /\ initRet.success)
    /\ InitOver => ipc = "returned"
    /\ (KubeadmProgram /\ \E st \in InitSteps : st \in conns /\ initOutcome[st].threw)
       => ipc = "returned"

\* Reading the kubeconfig was rejected: initControlPlane caught it and
\* returned success = false with the error.
C35_Witness ==
    /\ KubeadmProgram /\ ipc = "returned"
    /\ "kubeconfig" \in conns /\ initOutcome["kubeconfig"].threw
    /\ ~initRet.success /\ initRet.error.present
    /\ ~initRet.kubeconfig.present

\* ------------------------------------------------------------- C36
\* C36: under fairness every attempt SSHClient.exec or SSHClient.script starts
\* delivers a result, so the call returns.
C36_AttemptReturns ==
    (prog = "session" /\ ss.state = "connecting") ~> (ss.result # "none")

\* ------------------------------------------------------------- C37
\* C37: with a retry count of 0 an executor makes no attempt and opens no
\* connection, and its caller gets a failed outcome whose message reports 0
\* retries and an empty last error.
C37_ZeroRetriesReported ==
    (prog = "retry" /\ rt.pc = "done" /\ rt.retries = 0)
    => /\ rt.hist = <<>> /\ rtEvs = <<>>
       /\ rt.sleeps = 0
       /\ ~AttemptOk(rt.variant, rt.result)
       /\ LET msg == rt.result.message
              tail == NumStr(0) \o <<"times:">>
          IN  /\ Len(msg) > Len(tail)
              /\ SubSeq(msg, Len(msg) - Len(tail) + 1, Len(msg)) = tail

\* ------------------------------------------------------------- C38
\* How often the text t occurs in s.
Occurrences(s, t) ==
    Cardinality({i \in 1..(Len(s) - Len(t) + 1) : SubSeq(s, i, i + Len(t) - 1) = t})

SocketFlag == <<"--cri-socket=/run/cri-dockerd.sock">>
SudoJoin == <<"sudo", " ", "kubeadm", " ", "join">>
DoubledSudo == <<"sudo", " ", "sudo", " ", "kubeadm", " ", "join", " ">> \o SocketFlag

C39_MasterIpIsSecondArgument ==
    (prog = "joinMaster" /\ jk.done)
    => /\ Len(jk.args) = 2 /\ jk.args[2] = MasterIP
       /\ jk.k3sToken.present => jk.args[1] = jk.k3sToken.text
       /\ Len(jk.positional) = 2 /\ jk.positional[2] = MasterIP
       /\ jk.script.MASTER_IP = MasterIP

====
